---- MODULE Spec2Model ----
(***************************************************************************)
(* The incident-dashboard server of mcp-apps: the TTL cache (DataCache),   *)
(* the PagerDuty client that reads the REST API through it, and the two    *)
(* tool handlers get-incident-dashboard and poll-incident-stats.           *)
(*                                                                         *)
(* Time is in milliseconds, as Date.now() gives it.  toISOString() keeps   *)
(* the millisecond, so an ISO string is modelled by its millisecond value. *)
(* The event loop is single-threaded: a handler runs without interruption  *)
(* up to its first network await, and everything that follows the arrival  *)
(* of a response (body, validation, cache write, aggregation, the          *)
(* handler's return) is a chain of microtasks, modelled as one step.       *)
(***************************************************************************)
EXTENDS Integers, Sequences, FiniteSets, TLC

\* ---- bounds of the model ------------------------------------------------
MaxCalls == 2

\* ---- program constants --------------------------------------------------
TTL_STATIC == 5 * 60 * 1000

TTL_INCIDENTS_Doubled == 60 * 1000
TTL_INCIDENTS == 30 * 1000

SweepInterval == 60000
DefaultLimit == 100
RecentLimit == 1000
ActiveLimit == 100
ServicesLimit == 100

TimeRanges == {"24h", "7d", "30d"}
\* The ranges the clients of this model ask for.
RequestedRanges == {"24h"}
\* The clients of the server (two browser tabs): each has at most one tool
\* call under way, and `calls` keeps the last call of each.  tabA is the one
\* that calls first.
Clients == {"tabA", "tabB"}
ValidStatus == {"triggered", "acknowledged", "resolved"}
ValidUrgency == {"high", "low"}
ValidServiceStatus == {"active", "disabled", "maintenance", "critical", "warning"}
ActiveStatuses == <<"triggered", "acknowledged">>

\* ---- the environment ----------------------------------------------------
\* The clock values at which events happen.  An entry written at 0 has the
\* ages 1, TTL.INCIDENTS and TTL.STATIC at the later instants, one written at
\* 1 the ages TTL.INCIDENTS - 1 and TTL.STATIC - 1.
Instants == {0, 1, TTL_INCIDENTS, TTL_STATIC}

Min(a, b) == IF a <= b THEN a ELSE b

\* A collection of the REST API, by what the code reads of its records: how
\* many there are, the status and urgency values that occur in them, and
\* whether every created_at is a parseable date.
Collection(total, statuses, urgencies, datesOk) ==
  [total |-> total, statuses |-> statuses, urgencies |-> urgencies,
   dates_ok |-> datesOk]

NoIncidents == Collection(0, {}, {}, TRUE)
\* More incidents than the largest page the client asks for.
ManyIncidents == Collection(1001, {"triggered", "acknowledged"}, {"high", "low"}, TRUE)
BadStatusIncident == Collection(1, {"merged"}, {"high"}, TRUE)
BadUrgencyIncident == Collection(1, {"triggered"}, {"severe"}, TRUE)
BadDateIncident == Collection(1, {"triggered"}, {"low"}, FALSE)

NoServices == Collection(0, {}, {}, TRUE)
ManyServices == Collection(1001, {"active"}, {}, TRUE)
BadStatusService == Collection(1, {"deleted"}, {}, TRUE)

\* The states of the REST API.  mode "ok": requests are answered 2xx with a
\* page; otherwise the non-2xx status every request gets (a rejection of
\* fetch itself leaves makeRequest the same way).
Upstream(mode, incidents, services) ==
  [mode |-> mode, incidents |-> incidents, services |-> services]

UpstreamStates ==
  { Upstream("ok", NoIncidents, NoServices),
    Upstream("ok", ManyIncidents, ManyServices),
    Upstream("ok", BadStatusIncident, NoServices),
    Upstream("ok", BadUrgencyIncident, NoServices),
    Upstream("ok", BadDateIncident, NoServices),
    Upstream("ok", NoIncidents, BadStatusService),
    Upstream("api_401", NoIncidents, NoServices),
    Upstream("api_503", NoIncidents, NoServices) }

Quiet == Upstream("ok", NoIncidents, NoServices)
Busy == Upstream("ok", ManyIncidents, ManyServices)
Down == Upstream("api_503", NoIncidents, NoServices)

\* The changes of the REST API while the server runs: an outage ends,
\* records arrive, the API key is revoked.
UpstreamNext(u) ==
  IF u = Quiet THEN {Busy}
  ELSE IF u = Down THEN {Quiet}
  ELSE IF u = Upstream("ok", NoIncidents, BadStatusService)
    THEN {Upstream("api_401", NoIncidents, NoServices)}
  ELSE {}

\* The page a GET with the given limit (and offset 0) is answered with.
Page(coll, limit) ==
  [n |-> Min(limit, coll.total), total |-> coll.total,
   more |-> (Min(limit, coll.total) < coll.total),
   statuses |-> coll.statuses, urgencies |-> coll.urgencies,
   dates_ok |-> coll.dates_ok]

ResponseEmptyOnFailure(up, coll, limit) ==
  IF up.mode # "ok" THEN [fail |-> "", body |-> <<Page(Collection(0, {}, {}, TRUE), limit)>>]
  ELSE [fail |-> "", body |-> <<Page(coll, limit)>>]
\* What fetch() ends with for one request.
Response(up, coll, limit) ==
  IF up.mode # "ok" THEN [fail |-> up.mode, body |-> <<>>]
  ELSE [fail |-> "", body |-> <<Page(coll, limit)>>]

VARIABLES
  now,        \* Date.now()
  env,        \* process.env: which of the two credentials are set
  upstream,   \* the REST API: its health and its two collections
  cache,      \* DataCache.cache: key -> [data, timestamp, ttl]
  calls,      \* per client, its last tool call
  started,    \* tool calls made so far
  nextSweep,  \* when the cleanup interval is next due
  snapshot,   \* the Incident[] handed to the aggregation functions
  catalog,    \* the Service[] handed to them
  timeRange,  \* the time range label handed to them
  tz,         \* the process's time zone: local time minus UTC, in ms
  returned,   \* what the last aggregation call returned
  unswept,    \* the map of a DataCache given the same operations, whose
              \* interval never fires
  fetches,    \* the fetchers of direct getOrFetch calls that are under way
  ops,        \* operations made on the DataCache directly
  last,       \* the last of them: what it returned
  app,        \* the dashboard client: whether useApp has connected
  isPolling,  \* its isPolling state
  pollInterval, \* when its interval is next due; empty when there is none
  polls,      \* the poll-incident-stats calls it has made
  currentStats \* the poll whose stats it shows; empty for null

aggregator == <<snapshot, catalog, timeRange, tz, returned>>

\* The DataCache used directly, without the client.
direct == <<unswept, fetches, ops, last>>

\* The dashboard client.
widget == <<app, isPolling, pollInterval, polls, currentStats>>

vars == <<now, env, upstream, cache, calls, started, nextSweep, aggregator, direct,
          widget>>

\* ---- DataCache ------------------------------------------------------------
FreshInclusive(entry, t) == t - entry.timestamp <= entry.ttl
NeverFresh(entry, t) == FALSE
FreshForIncidentsTtl(entry, t) == t - entry.timestamp < TTL_INCIDENTS
\* getOrFetch's hit test.
Fresh(entry, t) == t - entry.timestamp < entry.ttl

ExpiredStrictly(entry, t) == t - entry.timestamp > entry.ttl
ExpiredAtHalfLife(entry, t) == 2 * (t - entry.timestamp) >= entry.ttl
\* cleanup's (and get's) expiry test.
Expired(entry, t) == t - entry.timestamp >= entry.ttl

CacheSetSkipped(c, key, data, ttl, t) == c
CacheSetBackdated(c, key, data, ttl, t) ==
  [k \in DOMAIN c \cup {key} |->
     IF k = key THEN [data |-> data, timestamp |-> t - 1, ttl |-> ttl] ELSE c[k]]
CacheSetKeepsTtl(c, key, data, ttl, t) ==
  [k \in DOMAIN c \cup {key} |->
     IF k = key
       THEN [data |-> data, timestamp |-> t,
             ttl |-> IF key \in DOMAIN c THEN c[key].ttl ELSE ttl]
       ELSE c[k]]
\* this.cache.set(key, {data, timestamp: Date.now(), ttl})
CacheSet(c, key, data, ttl, t) ==
  [k \in DOMAIN c \cup {key} |->
     IF k = key THEN [data |-> data, timestamp |-> t, ttl |-> ttl] ELSE c[k]]

CacheDelete(c, keys) == [k \in DOMAIN c \ keys |-> c[k]]

EmptyCache == [k \in {} |-> <<>>]

\* ---- pagerduty-client ----------------------------------------------------
getCredentialsKeyOnly(e) == e.apiKey
\* TRUE when getCredentials returns, FALSE when it throws.
getCredentials(e) == e.apiKey /\ e.userEmail

\* JSON.stringify(params) behind the prefix: one string per distinct
\* parameter object, so the key is modelled by the parameters themselves.
\* An absent property is the empty tuple.
IncidentsKey(params) == [prefix |-> "incidents", params |-> params]
ServicesKey(params) == [prefix |-> "services", params |-> params]

\* `since` of a time range at clock value t: a copy of the date moved back
\* by setHours(getHours() - 24) or setDate(getDate() - 7 | 30).  The date is
\* kept as the clock value and the calendar shift applied to it.
Since(tr, t) ==
  CASE tr = "24h" -> [base |-> t, hours |-> 24, days |-> 0]
    [] tr = "7d" -> [base |-> t, hours |-> 0, days |-> 7]
    [] tr = "30d" -> [base |-> t, hours |-> 0, days |-> 30]

\* getRecentIncidents' argument to listIncidents, read off the clock at t.
RecentParams(tr, t) ==
  [window |-> <<[since |-> Since(tr, t), until |-> t]>>, statuses |-> <<>>,
   limit |-> RecentLimit]

\* getActiveIncidents' argument to listIncidents.
ActiveParams == [window |-> <<>>, statuses |-> ActiveStatuses, limit |-> ActiveLimit]

\* The handler's argument to listServices.
ServicesParams == [window |-> <<>>, statuses |-> <<>>, limit |-> ServicesLimit]

\* JSON.stringify(params): the properties that are present, in the order the
\* caller wrote them, each with its value.
JSONStringifyLimitOnly(params) == << <<"limit", params.limit>> >>
JSONStringify(params) ==
  (IF params.window # <<>>
     THEN << <<"since", params.window[1].since>>, <<"until", params.window[1].until>> >>
     ELSE <<>>)
  \o (IF params.statuses # <<>> THEN << <<"statuses", params.statuses>> >> ELSE <<>>)
  \o << <<"limit", params.limit>> >>

\* `incidents:${JSON.stringify(params)}` and `services:${JSON.stringify(params)}`:
\* the string the map is keyed by.
CacheKeyText(key) == <<key.prefix>> \o JSONStringify(key.params)

\* apiParams.limit = params.limit || 100
ApiLimit(params) == IF params.limit = 0 THEN DefaultLimit ELSE params.limit

IncidentListSchemaAcceptsAll(body) == TRUE
\* IncidentListSchema.parse: TRUE when it returns, FALSE when it throws.
IncidentListSchemaParse(body) ==
  /\ body.statuses \subseteq ValidStatus
  /\ body.urgencies \subseteq ValidUrgency

\* ServiceListSchema.parse
ServiceListSchemaParse(body) == body.statuses \subseteq ValidServiceStatus

\* makeRequest followed by the schema's parse: the fetcher's outcome.
FetcherOutcome(resp, valid) ==
  IF resp.fail # "" THEN [ok |-> FALSE, err |-> resp.fail]
  ELSE IF ~valid THEN [ok |-> FALSE, err |-> "validation"]
  ELSE [ok |-> TRUE, err |-> ""]

\* ---- one getOrFetch inside a tool call -------------------------------------
\* st: hit | pending | ok | failed | unused.  attempts: invocations of the
\* fetcher.
NoPart == [st |-> "unused", data |-> <<>>, err |-> "", attempts |-> 0]

getOrFetchSingleFlight(c, key, e, t) ==
  LET inFlight ==
        \E cl \in Clients :
          \/ calls[cl].key = key /\ calls[cl].inc.st = "pending"
          \/ key.prefix = "services" /\ calls[cl].svc.st = "pending"
  IN IF key \in DOMAIN c /\ Fresh(c[key], t)
       THEN [NoPart EXCEPT !.st = "hit", !.data = <<c[key].data>>]
       ELSE IF inFlight
         THEN [NoPart EXCEPT !.st = "pending"]
         ELSE IF ~getCredentials(e)
           THEN [NoPart EXCEPT !.st = "failed", !.err = "config", !.attempts = 1]
           ELSE [NoPart EXCEPT !.st = "pending", !.attempts = 1]
\* getOrFetch up to its await: the lookup, and on a miss the start of the
\* fetcher, whose makeRequest throws at once when a credential is missing.
getOrFetchStart(c, key, e, t) ==
  IF key \in DOMAIN c /\ Fresh(c[key], t)
    THEN [NoPart EXCEPT !.st = "hit", !.data = <<c[key].data>>]
    ELSE IF ~getCredentials(e)
      THEN [NoPart EXCEPT !.st = "failed", !.err = "config", !.attempts = 1]
      ELSE [NoPart EXCEPT !.st = "pending", !.attempts = 1]

\* getOrFetch after the fetcher resolved.
getOrFetchResolve(part, data) == [part EXCEPT !.st = "ok", !.data = <<data>>]

getOrFetchRetries(part, err) == [part EXCEPT !.attempts = @ + 1]
\* getOrFetch after the fetcher rejected: the rejection leaves the await.
getOrFetchReject(part, err) == [part EXCEPT !.st = "failed", !.err = err]

EmptyPage == Page(NoIncidents, DefaultLimit)
PoisonOnReject(c, key, ttl, t) == CacheSet(c, key, EmptyPage, ttl, t)
CacheAfterRejectDropsKey(c, key, ttl, t) == CacheDelete(c, {key})
\* The cache map after the fetcher rejected: line 361 is not reached.
CacheAfterReject(c, key, ttl, t) == c

\* ---- aggregations, as far as the tool result shows them ---------------------
\* The incidents of a page that are triggered or acknowledged.  The pages of
\* this model are all-active or all-inactive.
ActiveCount(body) ==
  IF body.statuses \subseteq {"triggered", "acknowledged"} THEN body.n ELSE 0

\* getBucketKey calls toISOString on new Date(created_at), which throws a
\* RangeError for an unparseable date.
DashboardThrows(incidents) == incidents.n > 0 /\ ~incidents.dates_ok

\* generateDashboardData, run at clock value t.
generateDashboardData(incidents, services, tr, t) ==
  [total_incidents |-> incidents.n,
   active_incidents |-> ActiveCount(incidents),
   catalog |-> services.n,
   start |-> Since(tr, t), end |-> t, label |-> tr,
   generated_at |-> t]

\* generateIncidentStats, run at clock value t.
generateIncidentStats(incidents, t) ==
  [timestamp |-> t,
   active_incidents |-> ActiveCount(incidents),
   listed |-> incidents.n]

\* ---- the tool handlers ------------------------------------------------------
SuccessResult(payload) ==
  [isError |-> FALSE, thrown |-> FALSE, text |-> <<"summary">>,
   structured |-> <<payload>>]

HandlerRethrows(prefix, err) ==
  IF err = "validation"
    THEN [isError |-> FALSE, thrown |-> TRUE, text |-> <<>>, structured |-> <<>>]
    ELSE [isError |-> TRUE, thrown |-> FALSE, text |-> <<prefix, err>>,
          structured |-> <<>>]
\* The catch block of a handler.
HandlerCatch(prefix, err) ==
  [isError |-> TRUE, thrown |-> FALSE, text |-> <<prefix, err>>,
   structured |-> <<>>]

Resolved(part) == part.st \in {"hit", "ok"}

\* The handler's continuation after an event at clock value t: Promise.all
\* rejects with the first rejection and resolves when both parts have; the
\* aggregation and the return follow in the same microtask chain.
Settle(c, t) ==
  IF c.result # <<>> THEN c
  ELSE IF c.tool = "poll" THEN
    IF c.inc.st = "failed"
      THEN [c EXCEPT !.result = <<HandlerCatch("Polling error", c.inc.err)>>]
    ELSE IF Resolved(c.inc)
      THEN [c EXCEPT !.result =
              <<SuccessResult(generateIncidentStats(c.inc.data[1], t))>>]
    ELSE c
  ELSE
    IF c.inc.st = "failed"
      THEN [c EXCEPT !.result =
              <<HandlerCatch("Failed to load incident dashboard", c.inc.err)>>]
    ELSE IF c.svc.st = "failed"
      THEN [c EXCEPT !.result =
              <<HandlerCatch("Failed to load incident dashboard", c.svc.err)>>]
    ELSE IF Resolved(c.inc) /\ Resolved(c.svc)
      THEN IF DashboardThrows(c.inc.data[1])
        THEN [c EXCEPT !.result =
                <<HandlerCatch("Failed to load incident dashboard", "range")>>]
        ELSE [c EXCEPT !.result =
                <<SuccessResult(generateDashboardData(c.inc.data[1], c.svc.data[1],
                                                      c.timeRange, t))>>]
    ELSE c

NoCall ==
  [tool |-> "none", timeRange |-> "", startedAt |-> -1, key |-> IncidentsKey(ActiveParams),
   inc |-> NoPart, svc |-> NoPart, result |-> <<>>]

\* No request of the call is under way.
Finished(c) == c.inc.st # "pending" /\ c.svc.st # "pending"

\* No aggregation function has been called.
NotCalled == [fn |-> "none", val |-> <<>>, again |-> <<>>]

\* No operation has been made on the DataCache directly.  keys: the keys an
\* operation addresses.
NoOperation ==
  [op |-> "none", keys |-> {}, val |-> <<>>, twinVal |-> <<>>,
   invoked |-> FALSE, twinInvoked |-> FALSE]

\* The dashboard client before it has connected: useState(true) for
\* isPolling, useState(null) for currentStats.
NoWidget ==
  /\ app = FALSE
  /\ isPolling = TRUE
  /\ pollInterval = <<>>
  /\ polls = <<>>
  /\ currentStats = <<>>

\* ---- actions ------------------------------------------------------------------
Init ==
  /\ now = 0
  /\ env \in [apiKey : BOOLEAN, userEmail : BOOLEAN]
  /\ upstream \in UpstreamStates
  /\ ~getCredentials(env) => upstream = Quiet
  /\ cache = EmptyCache
  /\ calls = [cl \in Clients |-> NoCall]
  /\ started = 0
  /\ nextSweep = SweepInterval
  /\ snapshot = <<>>
  /\ catalog = <<>>
  /\ timeRange = "24h"
  /\ tz = 0
  /\ returned = NotCalled
  /\ unswept = EmptyCache
  /\ fetches = {}
  /\ ops = 0
  /\ last = NoOperation
  /\ NoWidget

\* get-incident-dashboard arrives: getRecentIncidents and listServices both
\* run up to their network await.
StartDashboard(cl, tr) ==
  /\ started < MaxCalls
  /\ Finished(calls[cl])
  /\ cl = "tabA" \/ calls["tabA"].tool # "none"
  /\ LET key == IncidentsKey(RecentParams(tr, now))
         inc == getOrFetchStart(cache, key, env, now)
         svc == getOrFetchStart(cache, ServicesKey(ServicesParams), env, now)
         c == [tool |-> "dashboard", timeRange |-> tr, startedAt |-> now,
               key |-> key, inc |-> inc, svc |-> svc,
               result |-> <<>>]
     IN /\ calls' = [calls EXCEPT ![cl] = Settle(c, now)]
        /\ started' = started + 1
  /\ UNCHANGED <<now, env, upstream, cache, nextSweep, aggregator, direct, widget>>

StartPollWithServices(cl) ==
  /\ started < MaxCalls
  /\ Finished(calls[cl])
  /\ cl = "tabA" \/ calls["tabA"].tool # "none"
  /\ LET key == IncidentsKey(ActiveParams)
         inc == getOrFetchStart(cache, key, env, now)
         svc == getOrFetchStart(cache, ServicesKey(ServicesParams), env, now)
         c == [tool |-> "poll", timeRange |-> "", startedAt |-> now,
               key |-> key, inc |-> inc, svc |-> svc,
               result |-> <<>>]
     IN /\ calls' = [calls EXCEPT ![cl] = Settle(c, now)]
        /\ started' = started + 1
  /\ UNCHANGED <<now, env, upstream, cache, nextSweep, aggregator, direct, widget>>
\* poll-incident-stats arrives: getActiveIncidents runs up to its await.
StartPoll(cl) ==
  /\ started < MaxCalls
  /\ Finished(calls[cl])
  /\ cl = "tabA" \/ calls["tabA"].tool # "none"
  /\ LET key == IncidentsKey(ActiveParams)
         inc == getOrFetchStart(cache, key, env, now)
         c == [tool |-> "poll", timeRange |-> "", startedAt |-> now,
               key |-> key, inc |-> inc, svc |-> NoPart,
               result |-> <<>>]
     IN /\ calls' = [calls EXCEPT ![cl] = Settle(c, now)]
        /\ started' = started + 1
  /\ UNCHANGED <<now, env, upstream, cache, nextSweep, aggregator, direct, widget>>

\* The /incidents request of a client's call ends.
IncidentsResponse(cl) ==
  /\ calls[cl].inc.st = "pending"
  /\ LET resp == Response(upstream, upstream.incidents, ApiLimit(calls[cl].key.params))
         out == FetcherOutcome(resp, resp.fail = "" /\ IncidentListSchemaParse(resp.body[1]))
       IN IF out.ok
            THEN /\ cache' = CacheSet(cache, calls[cl].key, resp.body[1], TTL_INCIDENTS, now)
                 /\ calls' = [calls EXCEPT ![cl] =
                      Settle([@ EXCEPT !.inc =
                                getOrFetchResolve(@, resp.body[1])], now)]
            ELSE /\ cache' = CacheAfterReject(cache, calls[cl].key, TTL_INCIDENTS, now)
                 /\ calls' = [calls EXCEPT ![cl] =
                      Settle([@ EXCEPT !.inc = getOrFetchReject(@, out.err)], now)]
  /\ UNCHANGED <<now, env, upstream, started, nextSweep, aggregator, direct, widget>>

\* The /services request of a client's call ends.
ServicesResponse(cl) ==
  /\ calls[cl].svc.st = "pending"
  /\ LET resp == Response(upstream, upstream.services, ApiLimit(ServicesParams))
         key == ServicesKey(ServicesParams)
         out == FetcherOutcome(resp, resp.fail = "" /\ ServiceListSchemaParse(resp.body[1]))
       IN IF out.ok
            THEN /\ cache' = CacheSet(cache, key, resp.body[1], TTL_STATIC, now)
                 /\ calls' = [calls EXCEPT ![cl] =
                      Settle([@ EXCEPT !.svc =
                                getOrFetchResolve(@, resp.body[1])], now)]
            ELSE /\ cache' = CacheAfterReject(cache, key, TTL_STATIC, now)
                 /\ calls' = [calls EXCEPT ![cl] =
                      Settle([@ EXCEPT !.svc = getOrFetchReject(@, out.err)], now)]
  /\ UNCHANGED <<now, env, upstream, started, nextSweep, aggregator, direct, widget>>

\* The clock advances.
Tick(t) ==
  /\ t > now
  /\ now' = t
  /\ UNCHANGED <<env, upstream, cache, calls, started, nextSweep, aggregator, direct, widget>>

\* The upstream's health or one of its collections changes.
UpstreamChange ==
  /\ upstream' \in UpstreamNext(upstream)
  /\ UNCHANGED <<now, env, cache, calls, started, nextSweep, aggregator, direct, widget>>

\* The constructor's interval fires: cleanup().
Cleanup ==
  /\ now >= nextSweep
  /\ cache' = CacheDelete(cache, {k \in DOMAIN cache : Expired(cache[k], now)})
  /\ nextSweep' = now + SweepInterval
  /\ UNCHANGED <<now, env, upstream, calls, started, aggregator, direct, widget>>

\* clearCache()
ClearCache ==
  /\ cache' = EmptyCache
  /\ UNCHANGED <<now, env, upstream, calls, started, nextSweep, aggregator, direct, widget>>

\* invalidateIncidentCache(): invalidatePattern(/^incidents:/)
InvalidateIncidentCache ==
  /\ cache' = CacheDelete(cache, {k \in DOMAIN cache : k.prefix = "incidents"})
  /\ UNCHANGED <<now, env, upstream, calls, started, nextSweep, aggregator, direct, widget>>

Next ==
  \/ \E cl \in Clients, tr \in RequestedRanges : StartDashboard(cl, tr)
  \/ \E cl \in Clients : StartPoll(cl)
  \/ \E cl \in Clients : IncidentsResponse(cl)
  \/ \E cl \in Clients : ServicesResponse(cl)
  \/ \E t \in Instants : Tick(t)
  \/ UpstreamChange
  \/ Cleanup
  \/ ClearCache
  \/ InvalidateIncidentCache

Spec == Init /\ [][Next]_vars

\* ==== the aggregation functions on concrete snapshots ========================
\* An ISO 8601 string is modelled by the millisecond value new Date() gives
\* for it; null, undefined and "" (all falsy) by the empty tuple.

\* ---- bounds of the snapshots ------------------------------------------------
MaxShort == 3
MaxLong == 10

\* slice(0, 5) of generateIncidentStats
RecentCount == 5

MinuteMs == 1000 * 60
HourMs == 60 * MinuteMs
DayMs == 24 * HourMs

\* UTC, and a zone half an hour off the UTC hour (+05:30).
TzOffsets == {0, 5 * HourMs + 30 * MinuteMs}

\* The time ranges whose `since` stays within 32 bits of milliseconds.
AggregatedRanges == {"24h", "7d"}

\* Instants of the second and third day after the epoch.
At(day, hour, minute) == day * DayMs + hour * HourMs + minute * MinuteMs

Incident(status, urgency, service, createdAt, resolvedAt) ==
  [id |-> 0, status |-> status, urgency |-> urgency, service |-> service,
   created_at |-> createdAt, resolved_at |-> resolvedAt]

\* Incidents that differ in every field the aggregation reads.
IncidentPool ==
  << Incident("triggered", "high", "s1", At(1, 8, 10), <<>>),
     Incident("acknowledged", "low", "s1", At(1, 8, 40), <<>>),
     Incident("resolved", "high", "s2", At(1, 8, 40), <<At(1, 9, 40)>>),
     Incident("resolved", "low", "s3", At(1, 20, 0), <<At(2, 1, 0)>>),
     Incident("resolved", "low", "s2", At(2, 1, 0), <<>>),
     Incident("triggered", "low", "s2", At(2, 1, 0), <<>>) >>

\* One service's incidents of one clock hour (UTC): triggered, acknowledged
\* and resolved ones.
HourPool ==
  << Incident("triggered", "high", "s1", At(1, 8, 10), <<>>),
     Incident("acknowledged", "low", "s1", At(1, 8, 40), <<>>),
     Incident("resolved", "high", "s1", At(1, 8, 20), <<At(1, 8, 40)>>) >>

\* The incidents array for a sequence of pool indices; id is the position.
Numbered(pool, ixs) == [k \in 1..Len(ixs) |-> [pool[ixs[k]] EXCEPT !.id = k]]

ShortSnapshots ==
  UNION { {Numbered(IncidentPool, ixs) : ixs \in [1..n -> 1..Len(IncidentPool)]}
          : n \in 0..MaxShort }

\* a triggered, then b acknowledged, then c resolved incidents.
Blocks(a, b, c) ==
  [k \in 1..(a + b + c) |-> IF k <= a THEN 1 ELSE IF k <= a + b THEN 2 ELSE 3]

LongSnapshots ==
  { Numbered(HourPool, Blocks(a, b, c)) :
      a \in 0..MaxLong, b \in 0..MaxLong, c \in 0..1 }

Snapshots == ShortSnapshots \cup {s \in LongSnapshots : Len(s) <= MaxLong}

Service(id, name) == [id |-> id, name |-> name]

Catalogs ==
  { <<>>,
    <<Service("s1", "S1")>>,
    <<Service("s2", "S2"), Service("s1", "S1")>> }

\* The clock when the aggregation first runs, and later readings.
FirstInstant == At(2, 2, 0)
LaterInstants == {FirstInstant + 1, FirstInstant + DayMs}

\* ---- aggregateIncidentTimeline ----------------------------------------------
\* setMinutes(0, 0, 0) and setHours(0, 0, 0, 0) work on the local time of the
\* process; toISOString() gives the instant back in UTC.
getBucketKey(date, bucketSize) ==
  IF bucketSize = "hour"
    THEN ((date + tz) \div HourMs) * HourMs - tz
    ELSE ((date + tz) \div DayMs) * DayMs - tz

EmptyBucket(key) ==
  [timestamp |-> key, triggered |-> 0, acknowledged |-> 0, resolved |-> 0,
   total |-> 0]

countIncidentNoTotal(bucket, status) ==
  [bucket EXCEPT
     !.triggered = IF status = "triggered" THEN @ + 1 ELSE @,
     !.acknowledged = IF status = "acknowledged" THEN @ + 1 ELSE @,
     !.resolved = IF status = "resolved" THEN @ + 1 ELSE @]
\* bucket.total++ and the switch on incident.status
countIncident(bucket, status) ==
  [bucket EXCEPT
     !.total = @ + 1,
     !.triggered = IF status = "triggered" THEN @ + 1 ELSE @,
     !.acknowledged = IF status = "acknowledged" THEN @ + 1 ELSE @,
     !.resolved = IF status = "resolved" THEN @ + 1 ELSE @]

\* The Map `buckets`, in insertion order, after the first k incidents.
RECURSIVE TimelineBuckets(_, _, _)
TimelineBuckets(incs, bucketSize, k) ==
  IF k = 0 THEN <<>>
  ELSE
    LET prev == TimelineBuckets(incs, bucketSize, k - 1)
        key == getBucketKey(incs[k].created_at, bucketSize)
        has == \E j \in 1..Len(prev) : prev[j].timestamp = key
        withKey == IF has THEN prev ELSE Append(prev, EmptyBucket(key))
    IN [j \in 1..Len(withKey) |->
          IF withKey[j].timestamp = key
            THEN countIncident(withKey[j], incs[k].status)
            ELSE withKey[j]]

\* Array.prototype.sort with a comparator a.key - b.key: ascending and
\* stable.  keys[j] is the key of seq[j]; rank(j) is the place element j
\* ends at.
SortAscending(seq, keys) ==
  LET n == Len(seq)
      rank(j) ==
        1 + Cardinality({k \in 1..n :
              \/ keys[k] < keys[j]
              \/ keys[k] = keys[j] /\ k < j})
  IN [p \in 1..n |-> seq[CHOOSE j \in 1..n : rank(j) = p]]

BucketStart(bucket) == bucket.timestamp

aggregateIncidentTimeline(incs, bucketSize) ==
  LET buckets == TimelineBuckets(incs, bucketSize, Len(incs))
  IN SortAscending(buckets, [j \in DOMAIN buckets |-> BucketStart(buckets[j])])

\* ---- aggregateByService -----------------------------------------------------
NewServiceHealth(id, name) ==
  [service_id |-> id, service_name |-> name, incident_count |-> 0,
   high_urgency_count |-> 0, low_urgency_count |-> 0,
   avg_resolution_time_minutes |-> <<>>, status |-> "healthy"]

HasService(rows, id) == \E j \in 1..Len(rows) : rows[j].service_id = id

seedNothing(svcs, k) == <<>>
\* serviceMap after services.forEach over the first k services: set() on a
\* key already present keeps its place.
RECURSIVE seedServices(_, _)
seedServices(svcs, k) ==
  IF k = 0 THEN <<>>
  ELSE
    LET prev == seedServices(svcs, k - 1)
        row == NewServiceHealth(svcs[k].id, svcs[k].name)
    IN IF HasService(prev, svcs[k].id)
         THEN [j \in 1..Len(prev) |->
                 IF prev[j].service_id = svcs[k].id THEN row ELSE prev[j]]
         ELSE Append(prev, row)

\* serviceMap after incidents.forEach over the first k incidents.
RECURSIVE countByService(_, _, _)
countByService(incs, svcs, k) ==
  IF k = 0 THEN seedServices(svcs, Len(svcs))
  ELSE
    LET prev == countByService(incs, svcs, k - 1)
        id == incs[k].service
        withRow == IF HasService(prev, id) THEN prev
                   ELSE Append(prev, NewServiceHealth(id, id))
    IN [j \in 1..Len(withRow) |->
          IF withRow[j].service_id = id
            THEN [withRow[j] EXCEPT
                    !.incident_count = @ + 1,
                    !.high_urgency_count =
                       IF incs[k].urgency = "high" THEN @ + 1 ELSE @,
                    !.low_urgency_count =
                       IF incs[k].urgency = "high" THEN @ ELSE @ + 1]
            ELSE withRow[j]]

\* incident.status === "resolved" && incident.resolved_at
HasResolution(i) == i.status = "resolved" /\ i.resolved_at # <<>>

\* resolvedAt - createdAt, in ms.
ResolutionMs(i) == i.resolved_at[1] - i.created_at

RECURSIVE SumResolutionMs(_)
SumResolutionMs(incs) ==
  IF incs = <<>> THEN 0
  ELSE ResolutionMs(Head(incs)) + SumResolutionMs(Tail(incs))

\* The mean of the resolution minutes of a non-empty list: the quotient
\* total_ms / (MinuteMs * count), kept as its two terms.
MeanMinutes(incs) == [total_ms |-> SumResolutionMs(incs), count |-> Len(incs)]

determineStatusByUrgency(serviceHealth) ==
  IF serviceHealth.high_urgency_count > 0 THEN "critical" ELSE "healthy"
\* The classification of the second forEach.
determineStatus(serviceHealth) ==
  IF serviceHealth.incident_count = 0 THEN "healthy"
  ELSE IF serviceHealth.incident_count <= 2 THEN "healthy"
  ELSE IF serviceHealth.incident_count <= 5 THEN "warning"
  ELSE "critical"

finishServiceHealthAcrossServices(incs, serviceHealth) ==
  LET times == SelectSeq(incs, HasResolution)
  IN [serviceHealth EXCEPT
        !.avg_resolution_time_minutes =
           IF Len(times) > 0 THEN <<MeanMinutes(times)>> ELSE @,
        !.status = determineStatus(serviceHealth)]
\* The second forEach: the average of the service's resolution times and
\* its status.
finishServiceHealth(incs, serviceHealth) ==
  LET times == SelectSeq(incs, LAMBDA i :
                 i.service = serviceHealth.service_id /\ HasResolution(i))
  IN [serviceHealth EXCEPT
        !.avg_resolution_time_minutes =
           IF Len(times) > 0 THEN <<MeanMinutes(times)>> ELSE @,
        !.status = determineStatus(serviceHealth)]

NegatedCount(row) == 0 - row.incident_count
PlainCount(row) == row.incident_count

sortByCountAscending(rows) == SortAscending(rows, [j \in DOMAIN rows |-> PlainCount(rows[j])])
\* sort((a, b) => b.incident_count - a.incident_count)
sortByCountDescending(rows) == SortAscending(rows, [j \in DOMAIN rows |-> NegatedCount(rows[j])])

aggregateByService(incs, svcs) ==
  LET counted == countByService(incs, svcs, Len(incs))
  IN sortByCountDescending(
       [j \in 1..Len(counted) |-> finishServiceHealth(incs, counted[j])])

\* ---- calculateUrgencyDistribution -------------------------------------------
MathFloor(num, den) == num \div den
\* Math.round(num / den) for num >= 0, den > 0: floor(x + 0.5).
MathRound(num, den) == (2 * num + den) \div (2 * den)

\* filter(...).length: the number of positions whose test holds.
CountWhere(tests) == Cardinality({k \in DOMAIN tests : tests[k]})

calculateUrgencyDistributionStateful(incs) ==
  LET high == CountWhere([k \in DOMAIN incs |-> incs[k].urgency = "high"])
      low == CountWhere([k \in DOMAIN incs |-> incs[k].urgency = "low"])
      total == Len(incs) + (IF returned.fn = "calculateUrgencyDistribution" THEN 1 ELSE 0)
  IN [high |-> high, low |-> low, total |-> total,
      high_percent |-> IF total > 0 THEN MathRound(high * 100, total) ELSE 0,
      low_percent |-> IF total > 0 THEN MathRound(low * 100, total) ELSE 0]
calculateUrgencyDistribution(incs) ==
  LET high == CountWhere([k \in DOMAIN incs |-> incs[k].urgency = "high"])
      low == CountWhere([k \in DOMAIN incs |-> incs[k].urgency = "low"])
      total == Len(incs)
  IN [high |-> high, low |-> low, total |-> total,
      high_percent |-> IF total > 0 THEN MathRound(high * 100, total) ELSE 0,
      low_percent |-> IF total > 0 THEN MathRound(low * 100, total) ELSE 0]

\* ---- calculateAvgResolutionTime ---------------------------------------------
calculateAvgResolutionTimeZero(incs) ==
  LET resolvedIncidents == SelectSeq(incs, HasResolution)
  IN IF Len(resolvedIncidents) = 0 THEN <<[total_ms |-> 0, count |-> 1]>>
     ELSE <<MeanMinutes(resolvedIncidents)>>
\* null is the empty tuple.
calculateAvgResolutionTime(incs) ==
  LET resolvedIncidents == SelectSeq(incs, HasResolution)
  IN IF Len(resolvedIncidents) = 0 THEN <<>>
     ELSE <<MeanMinutes(resolvedIncidents)>>

\* ---- generateDashboardData on a concrete snapshot ---------------------------
\* toDateString(): the local calendar day of an instant.
LocalDay(t) == (t + tz) \div DayMs

IsTriggered(i) == i.status = "triggered"
IsActive(i) == i.status = "triggered" \/ i.status = "acknowledged"

IncidentDashboardData(incs, svcs, tr, t) ==
  [summary |->
     [total_incidents |-> Len(incs),
      active_incidents |-> CountWhere([k \in DOMAIN incs |-> IsActive(incs[k])]),
      resolved_today |-> CountWhere([k \in DOMAIN incs |->
                           HasResolution(incs[k])
                           /\ LocalDay(incs[k].resolved_at[1]) = LocalDay(t)]),
      avg_resolution_time_minutes |-> calculateAvgResolutionTime(incs)],
   timeline |-> aggregateIncidentTimeline(incs, IF tr = "24h" THEN "hour" ELSE "day"),
   service_health |-> aggregateByService(incs, svcs),
   urgency_distribution |-> calculateUrgencyDistribution(incs),
   time_range |-> [start |-> Since(tr, t), end |-> t, label |-> tr],
   generated_at |-> t]

\* ---- generateIncidentStats on a concrete snapshot ---------------------------
NegatedCreatedAt(i) == 0 - i.created_at

RecentItem(i) ==
  [id |-> i.id, status |-> i.status, urgency |-> i.urgency,
   service_name |-> i.service, created_at |-> i.created_at]

mostRecentUnsorted(active) ==
  [k \in 1..Min(RecentCount, Len(active)) |-> RecentItem(active[k])]
\* sort newest first, slice(0, 5), map
mostRecent(active) ==
  LET sorted == SortAscending(active, [j \in DOMAIN active |-> NegatedCreatedAt(active[j])])
  IN [k \in 1..Min(RecentCount, Len(active)) |-> RecentItem(sorted[k])]

IncidentStats(incs, t) ==
  [timestamp |-> t,
   active_incidents |-> CountWhere([k \in DOMAIN incs |-> IsActive(incs[k])]),
   triggered_count |-> CountWhere([k \in DOMAIN incs |-> incs[k].status = "triggered"]),
   acknowledged_count |-> CountWhere([k \in DOMAIN incs |-> incs[k].status = "acknowledged"]),
   high_urgency_count |-> CountWhere([k \in DOMAIN incs |-> incs[k].urgency = "high"]),
   low_urgency_count |-> CountWhere([k \in DOMAIN incs |-> incs[k].urgency = "low"]),
   recent_incidents |-> mostRecent(SelectSeq(incs, IsActive))]

\* ---- calls of the aggregation functions -------------------------------------
Functions ==
  {"aggregateIncidentTimeline", "aggregateByService",
   "calculateUrgencyDistribution", "calculateAvgResolutionTime",
   "generateDashboardData", "generateIncidentStats"}

\* The functions that read the clock.
Clocked == {"generateDashboardData", "generateIncidentStats"}

Apply(fn) ==
  CASE fn = "aggregateIncidentTimeline" ->
         aggregateIncidentTimeline(snapshot, IF timeRange = "24h" THEN "hour" ELSE "day")
    [] fn = "aggregateByService" -> aggregateByService(snapshot, catalog)
    [] fn = "calculateUrgencyDistribution" -> calculateUrgencyDistribution(snapshot)
    [] fn = "calculateAvgResolutionTime" -> calculateAvgResolutionTime(snapshot)
    [] fn = "generateDashboardData" ->
         IncidentDashboardData(snapshot, catalog, timeRange, now)
    [] fn = "generateIncidentStats" -> IncidentStats(snapshot, now)

\* ---- the arrays a call leaves behind ----------------------------------------
\* Array.prototype.sort sorts the array it is called on, in place; filter,
\* map, slice and Array.from return a new array.  The arrays of a call are
\* kept by the name the code gives them, the arguments under `incidents`
\* and `services`.
TimelineSorted == "buckets"
ServicesSorted == "rows"
StatsSortedInPlace == "incidents"
\* activeIncidents.sort(...): the array filter returned.
StatsSorted == "activeIncidents"

\* aggregateIncidentTimeline: Array.from(buckets.values()).sort(...)
arraysOfTimeline(incs, bucketSize) ==
  LET arrays == [incidents |-> incs,
                 buckets |-> TimelineBuckets(incs, bucketSize, Len(incs))]
      sorted == arrays[TimelineSorted]
  IN [arrays EXCEPT ![TimelineSorted] =
        SortAscending(sorted, [j \in DOMAIN sorted |-> BucketStart(sorted[j])])]

\* aggregateByService: Array.from(serviceMap.values()).sort(...)
arraysOfServices(incs, svcs) ==
  LET counted == countByService(incs, svcs, Len(incs))
      arrays == [incidents |-> incs, services |-> svcs,
                 rows |-> [j \in 1..Len(counted) |-> finishServiceHealth(incs, counted[j])]]
      sorted == arrays[ServicesSorted]
  IN [arrays EXCEPT ![ServicesSorted] =
        SortAscending(sorted, [j \in DOMAIN sorted |-> NegatedCount(sorted[j])])]

\* generateIncidentStats: incidents.filter(...) five times, then the sort.
arraysOfStats(incs) ==
  LET arrays == [incidents |-> incs, activeIncidents |-> SelectSeq(incs, IsActive)]
      sorted == arrays[StatsSorted]
  IN [arrays EXCEPT ![StatsSorted] =
        SortAscending(sorted, [j \in DOMAIN sorted |-> NegatedCreatedAt(sorted[j])])]

\* The incidents and services arrays handed to a function, after it returned.
\* generateDashboardData hands them on to the timeline and then to the
\* service aggregation; the other callees filter and reduce.
ArgumentsAfter(fn) ==
  CASE fn = "aggregateIncidentTimeline" ->
         [incidents |->
            arraysOfTimeline(snapshot, IF timeRange = "24h" THEN "hour" ELSE "day").incidents,
          services |-> catalog]
    [] fn = "aggregateByService" ->
         [incidents |-> arraysOfServices(snapshot, catalog).incidents,
          services |-> arraysOfServices(snapshot, catalog).services]
    [] fn = "calculateUrgencyDistribution" ->
         [incidents |-> snapshot, services |-> catalog]
    [] fn = "calculateAvgResolutionTime" ->
         [incidents |-> snapshot, services |-> catalog]
    [] fn = "generateDashboardData" ->
         LET afterTimeline ==
               arraysOfTimeline(snapshot, IF timeRange = "24h" THEN "hour" ELSE "day").incidents
         IN [incidents |-> arraysOfServices(afterTimeline, catalog).incidents,
             services |-> arraysOfServices(afterTimeline, catalog).services]
    [] fn = "generateIncidentStats" ->
         [incidents |-> arraysOfStats(snapshot).incidents, services |-> catalog]

server == <<env, upstream, cache, calls, started, nextSweep>>
inputs == <<snapshot, catalog, timeRange, tz>>

AggregatorInit ==
  /\ now = FirstInstant
  /\ env = [apiKey |-> TRUE, userEmail |-> TRUE]
  /\ upstream = Quiet
  /\ cache = EmptyCache
  /\ calls = [cl \in Clients |-> NoCall]
  /\ started = 0
  /\ nextSweep = SweepInterval
  /\ snapshot \in Snapshots
  /\ catalog \in Catalogs
  /\ timeRange \in AggregatedRanges
  /\ tz \in TzOffsets
  /\ returned = NotCalled
  /\ unswept = EmptyCache
  /\ fetches = {}
  /\ ops = 0
  /\ last = NoOperation
  /\ NoWidget

\* A function is called on the snapshot.
Call(fn) ==
  /\ returned.fn = "none"
  /\ returned' = [fn |-> fn, val |-> <<Apply(fn)>>, again |-> <<>>]
  /\ snapshot' = ArgumentsAfter(fn).incidents
  /\ catalog' = ArgumentsAfter(fn).services
  /\ UNCHANGED <<now, server, timeRange, tz, direct, widget>>

\* The function called before is called again on the same arguments.
CallAgain ==
  /\ returned.fn # "none"
  /\ returned.again = <<>>
  /\ returned' = [returned EXCEPT !.again = <<Apply(returned.fn)>>]
  /\ snapshot' = ArgumentsAfter(returned.fn).incidents
  /\ catalog' = ArgumentsAfter(returned.fn).services
  /\ UNCHANGED <<now, server, timeRange, tz, direct, widget>>

\* The clock advances between the two calls of a function that reads it.
ClockAdvances(t) ==
  /\ returned.fn \in Clocked
  /\ returned.again = <<>>
  /\ now = FirstInstant
  /\ now' = t
  /\ UNCHANGED <<server, inputs, returned, direct, widget>>

AggregatorNext ==
  \/ \E fn \in Functions : Call(fn)
  \/ CallAgain
  \/ \E t \in LaterInstants : ClockAdvances(t)

AggregatorSpec == AggregatorInit /\ [][AggregatorNext]_vars

\* ==== the DataCache used directly ==============================================
\* Every public operation of DataCache, called in any order on a few keys
\* while the clock advances and the constructor's interval fires.  Beside the
\* map, `unswept` is the map of a second DataCache that is given the same
\* operations and whose interval never fires.

\* ---- bounds of the direct use -----------------------------------------------
MaxOps == 3
\* The operations made while the interval is followed through two sweeps.
MaxFairOps == 2

TTL_METRICS == 60 * 1000

\* Two keys of the incidents prefix and one of the services prefix.
DirectKeys ==
  {IncidentsKey(ActiveParams), IncidentsKey(RecentParams("24h", 0)),
   ServicesKey(ServicesParams)}

DirectTtls == {TTL_INCIDENTS, TTL_METRICS}

\* The prefixes invalidatePattern is called with: /^incidents:/, /^services:/.
Patterns == {"incidents", "services"}

\* The clock values of the direct use: the ages TTL.INCIDENTS and
\* TTL.METRICS of an entry written at 0, the latter the instant of the
\* first sweep.
SweepInstants == {TTL_INCIDENTS, SweepInterval}

\* The same with the instant of the second sweep.
RecurringInstants == SweepInstants \cup {2 * SweepInterval}

\* A value stored by operation number id.  overtaken: an eviction of its key
\* returned between the invocation of the fetcher and its result.
Datum(id, overtaken) == [id |-> id, overtaken |-> overtaken]

\* pattern.test(key)
PatternTest(pattern, key) == key.prefix = pattern

DataCacheGetStrict(c, key, t) ==
  IF key \notin DOMAIN c THEN [val |-> <<>>, map |-> c]
  ELSE IF ExpiredStrictly(c[key], t) THEN [val |-> <<>>, map |-> CacheDelete(c, {key})]
  ELSE [val |-> <<c[key].data>>, map |-> c]
\* get(key): the value (null is the empty tuple) and the map it leaves.
DataCacheGet(c, key, t) ==
  IF key \notin DOMAIN c THEN [val |-> <<>>, map |-> c]
  ELSE IF Expired(c[key], t) THEN [val |-> <<>>, map |-> CacheDelete(c, {key})]
  ELSE [val |-> <<c[key].data>>, map |-> c]

\* invalidate(key)
DataCacheInvalidate(c, key) == CacheDelete(c, {key})

\* invalidatePattern(pattern)
DataCacheInvalidatePattern(c, pattern) ==
  CacheDelete(c, {k \in DOMAIN c : PatternTest(pattern, k)})

\* clear()
DataCacheClear(c) == EmptyCache

\* The fetchers under way after an eviction of the given keys returned.
Overtake(fs, keys) ==
  {[f EXCEPT !.overtaken = @ \/ f.key \in keys] : f \in fs}

BothCredentials == [apiKey |-> TRUE, userEmail |-> TRUE]

DirectInit ==
  /\ now = 0
  /\ env = BothCredentials
  /\ upstream = Quiet
  /\ cache = EmptyCache
  /\ calls = [cl \in Clients |-> NoCall]
  /\ started = 0
  /\ nextSweep = SweepInterval
  /\ snapshot = <<>>
  /\ catalog = <<>>
  /\ timeRange = "24h"
  /\ tz = 0
  /\ returned = NotCalled
  /\ unswept = EmptyCache
  /\ fetches = {}
  /\ ops = 0
  /\ last = NoOperation
  /\ NoWidget

client == <<env, upstream, calls, started>>

\* getOrFetch(key, fetcher, ttl) up to its return or its await.
GetOrFetch(key, ttl) ==
  /\ ops < MaxOps
  /\ LET part == getOrFetchStart(cache, key, env, now)
         twin == getOrFetchStart(unswept, key, env, now)
     IN /\ fetches' =
             IF part.st = "hit" /\ twin.st = "hit" THEN fetches
             ELSE fetches \cup
                    {[id |-> ops + 1, key |-> key, ttl |-> ttl,
                      real |-> part.st # "hit", twin |-> twin.st # "hit",
                      overtaken |-> FALSE]}
        /\ last' = [op |-> "getOrFetch", keys |-> {key},
                    val |-> part.data, twinVal |-> twin.data,
                    invoked |-> part.attempts = 1,
                    twinInvoked |-> twin.attempts = 1]
  /\ ops' = ops + 1
  /\ UNCHANGED <<now, cache, nextSweep, unswept, client, aggregator, widget>>

\* The fetcher of a getOrFetch resolves: lines 361-367.
FetcherResolves(f) ==
  /\ f \in fetches
  /\ cache' = IF f.real
                THEN CacheSet(cache, f.key, Datum(f.id, f.overtaken), f.ttl, now)
                ELSE cache
  /\ unswept' = IF f.twin
                  THEN CacheSet(unswept, f.key, Datum(f.id, f.overtaken), f.ttl, now)
                  ELSE unswept
  /\ fetches' = fetches \ {f}
  /\ UNCHANGED <<now, nextSweep, ops, last, client, aggregator, widget>>

\* The fetcher of a getOrFetch rejects: the await throws.
FetcherRejects(f) ==
  /\ f \in fetches
  /\ fetches' = fetches \ {f}
  /\ cache' = CacheAfterReject(cache, f.key, f.ttl, now)
  /\ unswept' = CacheAfterReject(unswept, f.key, f.ttl, now)
  /\ UNCHANGED <<now, nextSweep, ops, last, client, aggregator, widget>>

\* get(key)
Get(key) ==
  /\ ops < MaxOps
  /\ LET got == DataCacheGet(cache, key, now)
         twin == DataCacheGet(unswept, key, now)
     IN /\ cache' = got.map
        /\ unswept' = twin.map
        /\ last' = [NoOperation EXCEPT !.op = "get", !.keys = {key},
                                       !.val = got.val, !.twinVal = twin.val]
  /\ ops' = ops + 1
  /\ UNCHANGED <<now, nextSweep, fetches, client, aggregator, widget>>

\* set(key, data, ttl)
Set(key, ttl) ==
  /\ ops < MaxOps
  /\ cache' = CacheSet(cache, key, Datum(ops + 1, FALSE), ttl, now)
  /\ unswept' = CacheSet(unswept, key, Datum(ops + 1, FALSE), ttl, now)
  /\ last' = [NoOperation EXCEPT !.op = "set", !.keys = {key}]
  /\ ops' = ops + 1
  /\ UNCHANGED <<now, nextSweep, fetches, client, aggregator, widget>>

\* invalidate(key)
Invalidate(key) ==
  /\ ops < MaxOps
  /\ cache' = DataCacheInvalidate(cache, key)
  /\ unswept' = DataCacheInvalidate(unswept, key)
  /\ fetches' = Overtake(fetches, {key})
  /\ last' = [NoOperation EXCEPT !.op = "invalidate", !.keys = {key}]
  /\ ops' = ops + 1
  /\ UNCHANGED <<now, nextSweep, client, aggregator, widget>>

\* invalidatePattern(pattern)
InvalidatePattern(pattern) ==
  /\ ops < MaxOps
  /\ cache' = DataCacheInvalidatePattern(cache, pattern)
  /\ unswept' = DataCacheInvalidatePattern(unswept, pattern)
  /\ fetches' = Overtake(fetches, {k \in DirectKeys : PatternTest(pattern, k)})
  /\ last' = [NoOperation EXCEPT !.op = "invalidatePattern",
                      !.keys = {k \in DirectKeys : PatternTest(pattern, k)}]
  /\ ops' = ops + 1
  /\ UNCHANGED <<now, nextSweep, client, aggregator, widget>>

\* clear()
Clear ==
  /\ ops < MaxOps
  /\ cache' = DataCacheClear(cache)
  /\ unswept' = DataCacheClear(unswept)
  /\ fetches' = Overtake(fetches, DirectKeys)
  /\ last' = [NoOperation EXCEPT !.op = "clear", !.keys = DirectKeys]
  /\ ops' = ops + 1
  /\ UNCHANGED <<now, nextSweep, client, aggregator, widget>>

\* The clock advances; the interval's callback runs at the instant it is due.
Elapse(t) ==
  /\ t <= nextSweep
  /\ Tick(t)

\* A caller uses one of the public methods.
Operation ==
  \/ \E key \in DirectKeys, ttl \in DirectTtls : GetOrFetch(key, ttl)
  \/ \E key \in DirectKeys : Get(key)
  \/ \E key \in DirectKeys, ttl \in DirectTtls : Set(key, ttl)
  \/ \E key \in DirectKeys : Invalidate(key)
  \/ \E pattern \in Patterns : InvalidatePattern(pattern)
  \/ Clear

DirectNext ==
  \/ Operation
  \/ \E f \in fetches : FetcherResolves(f)
  \/ \E f \in fetches : FetcherRejects(f)
  \/ \E t \in SweepInstants : Elapse(t)
  \/ Cleanup

DirectSpec == DirectInit /\ [][DirectNext]_vars

\* The same operations, followed over two periods of the interval.
DirectFairNext ==
  \/ ops < MaxFairOps /\ Operation
  \/ \E f \in fetches : FetcherResolves(f)
  \/ \E f \in fetches : FetcherRejects(f)
  \/ \E t \in RecurringInstants : Elapse(t)
  \/ Cleanup

\* The clock advances and a due interval fires.
DirectFairSpec ==
  /\ DirectInit
  /\ [][DirectFairNext]_vars
  /\ WF_vars(\E t \in RecurringInstants : Elapse(t))
  /\ WF_vars(Cleanup)

\* ==== the DataCache found with entries of some age ============================
\* The operations made on a cache that already holds entries.
MaxAgedOps == 1

\* The clock values at which the entries were written.
AgedStamps == {0, 1}

\* The clock values at which the cache is then used: an entry written at 0
\* has the age TTL.INCIDENTS or TTL.METRICS, one written at 1 a millisecond
\* less.
AgedInstants == {TTL_INCIDENTS, TTL_METRICS}

\* The entries set(key, data, ttl) left at those clock values.
AgedEntries ==
  {[data |-> Datum(0, FALSE), timestamp |-> ts, ttl |-> ttl] :
     ts \in AgedStamps, ttl \in DirectTtls}

\* The maps with such an entry under some of the keys.
AgedMaps ==
  UNION {[keys -> AgedEntries] : keys \in SUBSET DirectKeys}

\* The cache after a first use, before the interval has fired.
AgedInit ==
  /\ now \in AgedInstants
  /\ env = BothCredentials
  /\ upstream = Quiet
  /\ cache \in AgedMaps
  /\ calls = [cl \in Clients |-> NoCall]
  /\ started = 0
  /\ nextSweep = SweepInterval
  /\ snapshot = <<>>
  /\ catalog = <<>>
  /\ timeRange = "24h"
  /\ tz = 0
  /\ returned = NotCalled
  /\ unswept = cache
  /\ fetches = {}
  /\ ops = 0
  /\ last = NoOperation
  /\ NoWidget

\* One of the public methods is used, within the same millisecond, and the
\* interval fires when it is due.
AgedNext ==
  \/ ops < MaxAgedOps /\ Operation
  \/ \E f \in fetches : FetcherResolves(f)
  \/ \E f \in fetches : FetcherRejects(f)
  \/ Cleanup

AgedSpec == AgedInit /\ [][AgedNext]_vars

\* ==== the dashboard client ======================================================
\* IncidentDashboardInner: the polling effect, the pause button and the
\* responses of the poll calls, which arrive in any order.
MaxPolls == 3

\* setInterval(..., 30000)
PollEvery == 30000

\* The clock values of the client: the first two periods of an interval
\* started at 0 or at 1.
WidgetInstants == {1, PollEvery, PollEvery + 1}

\* What a poll call ends with: a result with structuredContent, or none of
\* it (the error-flagged result, a rejected promise).
Outcomes == {"stats", "error"}

\* A callServerTool({name: "poll-incident-stats"}) made at clock value t.
\* order: its place among the responses that have arrived.  paused: whether
\* updates were paused when its response arrived.
PollCall(t) == [at |-> t, st |-> "pending", order |-> 0, paused |-> FALSE]

Arrived == {k \in DOMAIN polls : polls[k].st # "pending"}

statsOfNewestRequest(shown, k, outcome) ==
  IF outcome = "stats" /\ (shown = <<>> \/ shown[1] < k) THEN <<k>> ELSE shown
\* if (result.structuredContent) setCurrentStats(stats): the stats shown
\* after the response of poll k.
statsAfterResponse(shown, k, outcome) ==
  IF outcome = "stats" THEN <<k>> ELSE shown

\* The body of the polling effect, run when app or isPolling changed: the
\* interval and the initial poll, or nothing.
PollingEffect(connected, polling) ==
  IF polling /\ connected
    THEN /\ Len(polls) < MaxPolls
         /\ pollInterval' = <<now + PollEvery>>
         /\ polls' = Append(polls, PollCall(now))
    ELSE /\ pollInterval' = <<>>
         /\ polls' = polls

WidgetInit ==
  /\ now = 0
  /\ env = BothCredentials
  /\ upstream = Quiet
  /\ cache = EmptyCache
  /\ calls = [cl \in Clients |-> NoCall]
  /\ started = 0
  /\ nextSweep = SweepInterval
  /\ snapshot = <<>>
  /\ catalog = <<>>
  /\ timeRange = "24h"
  /\ tz = 0
  /\ returned = NotCalled
  /\ unswept = EmptyCache
  /\ fetches = {}
  /\ ops = 0
  /\ last = NoOperation
  /\ NoWidget

service == <<env, upstream, cache, calls, started, nextSweep, aggregator, direct>>

\* The app connects: the effect runs with the new `app`.
Connect ==
  /\ ~app
  /\ app' = TRUE
  /\ PollingEffect(TRUE, isPolling)
  /\ UNCHANGED <<now, isPolling, currentStats, service>>

\* togglePolling: the effect's cleanup clears the interval, then the effect
\* runs with the new isPolling.
TogglePolling ==
  /\ isPolling' = ~isPolling
  /\ PollingEffect(app, ~isPolling)
  /\ UNCHANGED <<now, app, currentStats, service>>

\* The interval's callback starts: one more poll call.
IntervalFires ==
  /\ pollInterval # <<>>
  /\ now = pollInterval[1]
  /\ Len(polls) < MaxPolls
  /\ polls' = Append(polls, PollCall(now))
  /\ pollInterval' = <<now + PollEvery>>
  /\ UNCHANGED <<now, app, isPolling, currentStats, service>>

\* The response of poll k arrives: the continuation of the callback, or the
\* then/catch of the initial poll.
PollResponse(k, outcome) ==
  /\ k \in DOMAIN polls
  /\ polls[k].st = "pending"
  /\ polls' = [polls EXCEPT ![k] = [@ EXCEPT !.st = outcome,
                                             !.order = Cardinality(Arrived) + 1,
                                             !.paused = ~isPolling]]
  /\ currentStats' = statsAfterResponse(currentStats, k, outcome)
  /\ UNCHANGED <<now, app, isPolling, pollInterval, service>>

\* The clock advances; a running interval fires when it is due.
WidgetTick(t) ==
  /\ pollInterval # <<>> => t <= pollInterval[1]
  /\ Tick(t)

WidgetNext ==
  \/ Connect
  \/ TogglePolling
  \/ IntervalFires
  \/ \E k \in 1..MaxPolls, outcome \in Outcomes : PollResponse(k, outcome)
  \/ \E t \in WidgetInstants : WidgetTick(t)

WidgetSpec == WidgetInit /\ [][WidgetNext]_vars

\* ---- vocabulary of the properties ------------------------------------------
Called(c) == c.tool # "none"

\* Client cl's tool call arrives in this step.
Arrives(cl) == started' = started + 1 /\ calls'[cl] # calls[cl]

\* The /incidents (the /services) request of cl's call ends in this step.
IncidentsSettles(cl) == calls[cl].inc.st = "pending" /\ calls'[cl].inc.st # "pending"
ServicesSettles(cl) == calls[cl].svc.st = "pending" /\ calls'[cl].svc.st # "pending"

SvcKey == ServicesKey(ServicesParams)
PollKey == IncidentsKey(ActiveParams)

\* The structured payload of a call that returned one.
Payload(c) == c.result[1].structured[1]
Succeeded(c) == c.result # <<>> /\ ~c.result[1].isError /\ ~c.result[1].thrown
PollOf(cl) == calls[cl].tool = "poll"

\* ---- C1 ----------------------------------------------------------------------
\* C1: a getOrFetch that finds an entry with now - timestamp < ttl returns
\* the stored value and does not invoke the fetcher; so of two polls, the
\* second arriving after the first one's fetch was stored and while that
\* entry is in the map, the fetcher runs once in all when the second arrives
\* within the TTL and twice when it arrives at or after expiry.
C1_HitStep ==
  \A cl \in Clients :
    Arrives(cl) =>
      LET c == calls'[cl] IN
      /\ (c.key \in DOMAIN cache /\ now - cache[c.key].timestamp < cache[c.key].ttl)
           => /\ c.inc.st = "hit"
              /\ c.inc.data = <<cache[c.key].data>>
              /\ c.inc.attempts = 0
      /\ (c.tool = "dashboard" /\ SvcKey \in DOMAIN cache
            /\ now - cache[SvcKey].timestamp < cache[SvcKey].ttl)
           => /\ c.svc.st = "hit"
              /\ c.svc.data = <<cache[SvcKey].data>>
              /\ c.svc.attempts = 0

C1_TwoPolls ==
  \A a, b \in Clients :
    ( /\ a # b /\ PollOf(a) /\ PollOf(b)
      /\ calls[a].inc.st = "ok"
      /\ calls[b].startedAt > Payload(calls[a]).timestamp
      /\ PollKey \in DOMAIN cache
      /\ cache[PollKey].timestamp = Payload(calls[a]).timestamp )
    => IF calls[b].startedAt - Payload(calls[a]).timestamp < 30000
         THEN calls[b].inc.st = "hit" /\ calls[a].inc.attempts + calls[b].inc.attempts = 1
         ELSE calls[a].inc.attempts + calls[b].inc.attempts = 2

C1_HitWithoutFetch == [][C1_HitStep]_vars /\ []C1_TwoPolls

C1_Witness ==
  /\ PollOf("tabA") /\ PollOf("tabB")
  /\ calls["tabA"].inc.st = "ok"
  /\ calls["tabB"].inc.st = "hit"
  /\ calls["tabB"].startedAt > Payload(calls["tabA"]).timestamp
  /\ calls["tabB"].inc.data = calls["tabA"].inc.data

\* ---- C2 ----------------------------------------------------------------------
\* C2: when the fetcher fails, the step leaves the cache map as it was, the
\* tool call returns the failure, and a getOrFetch that then finds no entry
\* for the key invokes the fetcher.
C2_FailStep ==
  \A cl \in Clients :
    /\ (IncidentsSettles(cl) /\ calls'[cl].inc.st = "failed")
         => /\ cache' = cache
            /\ calls'[cl].result # <<>>
            /\ calls'[cl].result[1].isError
            /\ (calls[cl].result = <<>>
                  => calls'[cl].result[1].text[2] = calls'[cl].inc.err)
    /\ (ServicesSettles(cl) /\ calls'[cl].svc.st = "failed")
         => /\ cache' = cache
            /\ calls'[cl].result # <<>>
            /\ calls'[cl].result[1].isError
    /\ (Arrives(cl) /\ calls'[cl].key \notin DOMAIN cache)
         => calls'[cl].inc.attempts = 1

C2_NoPoisonOnFailure == [][C2_FailStep]_vars

\* tabA's poll failed upstream and left no entry; tabB's poll, arriving
\* later, has invoked the fetcher again.
C2_Witness ==
  /\ PollOf("tabA") /\ PollOf("tabB")
  /\ calls["tabA"].inc.st = "failed"
  /\ calls["tabA"].inc.err = "api_503"
  /\ calls["tabB"].startedAt > calls["tabA"].startedAt
  /\ calls["tabB"].inc.attempts = 1
  /\ PollKey \notin DOMAIN cache

\* ---- C3 ----------------------------------------------------------------------
\* C3: an entry is a hit exactly while now - timestamp < ttl; from
\* now - timestamp = ttl on the lookup misses and invokes the fetcher, and a
\* successful fetch replaces the entry by the new value stamped with the
\* time of the write.
C3_ExpiryStep ==
  \A cl \in Clients :
    LET c == calls'[cl] IN
    /\ (Arrives(cl) /\ c.key \in DOMAIN cache)
         => IF now - cache[c.key].timestamp >= cache[c.key].ttl
              THEN c.inc.st # "hit" /\ c.inc.attempts = 1
              ELSE c.inc.st = "hit"
    /\ (Arrives(cl) /\ c.tool = "dashboard" /\ SvcKey \in DOMAIN cache)
         => IF now - cache[SvcKey].timestamp >= cache[SvcKey].ttl
              THEN c.svc.st # "hit" /\ c.svc.attempts = 1
              ELSE c.svc.st = "hit"
    /\ (IncidentsSettles(cl) /\ c.inc.st = "ok")
         => /\ c.key \in DOMAIN cache'
            /\ cache'[c.key].data = c.inc.data[1]
            /\ cache'[c.key].timestamp = now
    /\ (ServicesSettles(cl) /\ c.svc.st = "ok")
         => /\ SvcKey \in DOMAIN cache'
            /\ cache'[SvcKey].data = c.svc.data[1]
            /\ cache'[SvcKey].timestamp = now

C3_ExpiryAtTtl == [][C3_ExpiryStep]_vars

\* tabA's poll stored its snapshot at 0; tabB's poll arrived exactly one TTL
\* later, fetched, and its entry is the one in the map.
C3_Witness ==
  /\ PollOf("tabA") /\ PollOf("tabB")
  /\ calls["tabA"].inc.st = "ok"
  /\ Payload(calls["tabA"]).timestamp = 0
  /\ calls["tabB"].startedAt = 30000
  /\ calls["tabB"].inc.st = "ok"
  /\ calls["tabB"].inc.data # calls["tabA"].inc.data
  /\ PollKey \in DOMAIN cache
  /\ cache[PollKey].timestamp >= 30000
  /\ cache[PollKey].data = calls["tabB"].inc.data[1]

\* ---- C4 ----------------------------------------------------------------------
\* C4: a tool handler never throws; a failure of a request, of response
\* validation or of the aggregation is returned as a result with
\* isError = TRUE and a text made of the tool's prefix and the failure's
\* message, without structured content; otherwise the result is a success
\* with structured content.
PartFailed(c) ==
  \/ c.inc.st = "failed"
  \/ c.tool = "dashboard" /\ c.svc.st = "failed"

AllResolved(c) ==
  /\ Resolved(c.inc)
  /\ c.tool = "dashboard" => Resolved(c.svc)

C4_HandlersNeverThrow ==
  \A cl \in Clients :
    LET c == calls[cl] IN
    Called(c) =>
      /\ c.result # <<>> => ~c.result[1].thrown
      /\ PartFailed(c)
           => /\ c.result # <<>>
              /\ c.result[1].isError
              /\ Len(c.result[1].text) = 2
              /\ c.result[1].text[1] =
                   (IF c.tool = "poll" THEN "Polling error"
                                       ELSE "Failed to load incident dashboard")
              /\ c.result[1].text[2] \in {c.inc.err, c.svc.err} \ {""}
              /\ c.result[1].structured = <<>>
      /\ (AllResolved(c) /\ c.tool = "dashboard"
            /\ c.inc.data[1].n > 0 /\ ~c.inc.data[1].dates_ok)
           => /\ c.result # <<>>
              /\ c.result[1].isError
              /\ c.result[1].text = <<"Failed to load incident dashboard", "range">>
              /\ c.result[1].structured = <<>>
      /\ (AllResolved(c)
            /\ ~(c.tool = "dashboard" /\ c.inc.data[1].n > 0 /\ ~c.inc.data[1].dates_ok))
           => /\ c.result # <<>>
              /\ ~c.result[1].isError
              /\ c.result[1].structured # <<>>
      /\ (~PartFailed(c) /\ ~AllResolved(c)) => c.result = <<>>

\* Against an upstream whose incidents carry an unparseable created_at, the
\* dashboard's aggregation failed and was returned as an error result while
\* the poll of the other tab succeeded.
C4_Witness ==
  /\ calls["tabA"].tool = "dashboard"
  /\ AllResolved(calls["tabA"])
  /\ calls["tabA"].result # <<>>
  /\ calls["tabA"].result[1].isError
  /\ calls["tabA"].result[1].text[2] = "range"
  /\ PollOf("tabB")
  /\ Succeeded(calls["tabB"])

\* ---- C5 ----------------------------------------------------------------------
\* C5: two calls of the same tool with the same arguments, the second made
\* after the first returned and before the incidents TTL has run out, with
\* the first call's entries still in the cache, return the same payload up
\* to the fields stamped from the clock.
Unstamped(c) ==
  IF c.tool = "poll"
    THEN [active_incidents |-> Payload(c).active_incidents,
          listed |-> Payload(c).listed]
    ELSE [total_incidents |-> Payload(c).total_incidents,
          active_incidents |-> Payload(c).active_incidents,
          catalog |-> Payload(c).catalog,
          label |-> Payload(c).label]

ReturnedAt(c) ==
  IF c.tool = "poll" THEN Payload(c).timestamp ELSE Payload(c).generated_at

C5_Idempotent ==
  \A a, b \in Clients :
    ( /\ a # b
      /\ Called(calls[a]) /\ Called(calls[b])
      /\ calls[a].tool = calls[b].tool
      /\ calls[a].timeRange = calls[b].timeRange
      /\ Succeeded(calls[a]) /\ Succeeded(calls[b])
      /\ calls[b].startedAt > ReturnedAt(calls[a])
      /\ calls[b].startedAt - ReturnedAt(calls[a]) < 30000
      /\ calls[a].key \in DOMAIN cache
      /\ cache[calls[a].key].timestamp <= ReturnedAt(calls[a])
      /\ calls[a].tool = "dashboard" => SvcKey \in DOMAIN cache )
    => Unstamped(calls[a]) = Unstamped(calls[b])

\* ---- C6 ----------------------------------------------------------------------
\* C6: the snapshot a list call resolves with holds every record of the
\* upstream collection, with no page left unfetched.
C6_PaginationDrained ==
  \A cl \in Clients :
    LET c == calls[cl] IN
    /\ (Called(c) /\ Resolved(c.inc))
         => c.inc.data[1].n = c.inc.data[1].total /\ ~c.inc.data[1].more
    /\ (c.tool = "dashboard" /\ Resolved(c.svc))
         => c.svc.data[1].n = c.svc.data[1].total /\ ~c.svc.data[1].more

\* ---- C7 ----------------------------------------------------------------------
\* C7: incident entries are stored with a TTL of 30000 ms and service
\* entries with 300000 ms, and a lookup is a hit only if the entry is
\* younger than that.
C7_Entries ==
  \A k \in DOMAIN cache :
    /\ k.prefix = "incidents" => cache[k].ttl = 30000
    /\ k.prefix = "services" => cache[k].ttl = 300000

C7_HitStep ==
  \A cl \in Clients :
    Arrives(cl) =>
      /\ calls'[cl].inc.st = "hit"
           => /\ calls'[cl].key \in DOMAIN cache
              /\ now - cache[calls'[cl].key].timestamp < 30000
      /\ calls'[cl].svc.st = "hit"
           => /\ SvcKey \in DOMAIN cache
              /\ now - cache[SvcKey].timestamp < 300000

C7_TtlValues == []C7_Entries /\ [][C7_HitStep]_vars

\* tabA's dashboard stored both lists at 0; tabB's dashboard, arriving 30 s
\* later, was served the services from the cache and had to fetch the
\* incidents.
C7_Witness ==
  /\ calls["tabA"].tool = "dashboard"
  /\ Succeeded(calls["tabA"])
  /\ Payload(calls["tabA"]).generated_at = 0
  /\ calls["tabB"].tool = "dashboard"
  /\ calls["tabB"].startedAt = 30000
  /\ calls["tabB"].svc.st = "hit"
  /\ calls["tabB"].inc.attempts = 1

\* ---- C8 ----------------------------------------------------------------------
\* C8: within one tool call each list is requested at most once; a failed
\* request has been attempted exactly once and ends the call with an error
\* result.
C8_NoInternalRetry ==
  \A cl \in Clients :
    LET c == calls[cl] IN
    /\ c.inc.attempts <= 1
    /\ c.svc.attempts <= 1
    /\ c.inc.st \in {"failed", "pending", "ok"} => c.inc.attempts = 1
    /\ c.svc.st \in {"failed", "pending", "ok"} => c.svc.attempts = 1
    /\ c.inc.st \in {"hit", "unused"} => c.inc.attempts = 0
    /\ c.svc.st \in {"hit", "unused"} => c.svc.attempts = 0
    /\ c.inc.st = "failed" => c.result # <<>> /\ c.result[1].isError

\* tabA's poll failed on a 503 after a single attempt; the new attempt is the
\* one of tabB's later call.
C8_Witness ==
  /\ PollOf("tabA")
  /\ calls["tabA"].inc.st = "failed"
  /\ calls["tabA"].inc.err = "api_503"
  /\ calls["tabA"].inc.attempts = 1
  /\ Called(calls["tabB"])
  /\ calls["tabB"].startedAt > calls["tabA"].startedAt
  /\ calls["tabB"].inc.st = "pending"

\* ---- C9 ----------------------------------------------------------------------
\* C9: while PAGERDUTY_API_KEY or PAGERDUTY_USER_EMAIL is missing, every
\* tool call fails with the configuration error on each list it asks for,
\* after one attempt, and nothing is stored.
C9_ConfigErrorFatal ==
  (~env.apiKey \/ ~env.userEmail) =>
    /\ cache = EmptyCache
    /\ \A cl \in Clients :
         LET c == calls[cl] IN
         Called(c) =>
           /\ c.inc.st = "failed" /\ c.inc.err = "config" /\ c.inc.attempts = 1
           /\ c.tool = "dashboard"
                => c.svc.st = "failed" /\ c.svc.err = "config" /\ c.svc.attempts = 1
           /\ c.result # <<>>
           /\ c.result[1].isError
           /\ c.result[1].text[2] = "config"

\* The key is set and the e-mail is not; a dashboard and, later, a poll have
\* both failed on the configuration error.
C9_Witness ==
  /\ env.apiKey /\ ~env.userEmail
  /\ calls["tabA"].tool = "dashboard"
  /\ PollOf("tabB")
  /\ calls["tabB"].startedAt > calls["tabA"].startedAt
  /\ calls["tabB"].result # <<>>
  /\ calls["tabB"].result[1].text = <<"Polling error", "config">>

\* ---- C10 ---------------------------------------------------------------------
\* C10: an /incidents response holding a status outside {triggered,
\* acknowledged, resolved} or an urgency outside {high, low} makes the list
\* call fail with a validation error; such a response is never stored in
\* the cache and never reaches an aggregation.
WellFormed(body) ==
  /\ body.statuses \subseteq {"triggered", "acknowledged", "resolved"}
  /\ body.urgencies \subseteq {"high", "low"}

C10_MalformedRejected ==
  /\ \A k \in DOMAIN cache :
       k.prefix = "incidents" => WellFormed(cache[k].data)
  /\ \A cl \in Clients :
       LET c == calls[cl] IN
       /\ Resolved(c.inc) => WellFormed(c.inc.data[1])
       /\ ( /\ Called(c)
            /\ upstream.mode = "ok"
            /\ ~WellFormed(Page(upstream.incidents, ApiLimit(c.key.params))) )
            => /\ c.inc.st \in {"pending", "failed"}
               /\ c.inc.st = "failed" => c.inc.err = "validation"
               /\ ~Succeeded(c)

\* The upstream lists an incident of status "merged"; the poll failed on
\* validation and no incidents entry exists.
C10_Witness ==
  /\ upstream.mode = "ok"
  /\ "merged" \in upstream.incidents.statuses
  /\ PollOf("tabA")
  /\ calls["tabA"].inc.st = "failed"
  /\ calls["tabA"].inc.err = "validation"
  /\ calls["tabA"].result # <<>>
  /\ calls["tabA"].result[1].text = <<"Polling error", "validation">>
  /\ \A k \in DOMAIN cache : k.prefix # "incidents"

\* ---- vocabulary of the aggregation properties -------------------------------
Returned(fn) == returned.fn = fn
Value == returned.val[1]

ZeroDistribution ==
  [high |-> 0, low |-> 0, total |-> 0, high_percent |-> 0, low_percent |-> 0]

\* ---- C11 ---------------------------------------------------------------------
\* C11 (as the code has it): generateDashboardData on an empty incident
\* snapshot returns a payload with an empty timeline, the zero urgency
\* distribution, total_incidents = 0, a null average resolution time, and a
\* service_health that holds one row per catalog service, in catalog order,
\* with no incident, status healthy and a null average; service_health is
\* empty only when the catalog is.
C11_EmptySnapshotPayload ==
  (Returned("generateDashboardData") /\ snapshot = <<>>) =>
    /\ Value.timeline = <<>>
    /\ Value.urgency_distribution = ZeroDistribution
    /\ Value.summary.total_incidents = 0
    /\ Value.summary.active_incidents = 0
    /\ Value.summary.avg_resolution_time_minutes = <<>>
    /\ Len(Value.service_health) = Len(catalog)
    /\ \A j \in 1..Len(catalog) :
         Value.service_health[j] =
           [service_id |-> catalog[j].id, service_name |-> catalog[j].name,
            incident_count |-> 0, high_urgency_count |-> 0,
            low_urgency_count |-> 0, avg_resolution_time_minutes |-> <<>>,
            status |-> "healthy"]

\* C11 as stated: the payload for an empty incident snapshot has
\* timeline = [], service_health = [], the zero urgency distribution,
\* total_incidents = 0 and a null average resolution time.
C11_AsStated ==
  (Returned("generateDashboardData") /\ snapshot = <<>>) =>
    /\ Value.timeline = <<>>
    /\ Value.service_health = <<>>
    /\ Value.urgency_distribution = ZeroDistribution
    /\ Value.summary.total_incidents = 0
    /\ Value.summary.avg_resolution_time_minutes = <<>>

\* The dashboard of an empty snapshot over a catalog of two services.
C11_Witness ==
  /\ Returned("generateDashboardData")
  /\ snapshot = <<>>
  /\ Len(catalog) = 2
  /\ Len(Value.service_health) = 2
  /\ Value.timeline = <<>>

\* ---- C12 ---------------------------------------------------------------------
\* C12: calculateUrgencyDistribution counts the high and the low incidents
\* and all of them; with total = 0 both percentages are 0; with total > 0
\* each percentage is an integer nearest to 100 * count / total and the two
\* add up to 99, 100 or 101.
Abs(x) == IF x < 0 THEN 0 - x ELSE x

NearestPercent(p, count, total) == 2 * Abs(p * total - 100 * count) <= total

C12_UrgencyPercentages ==
  Returned("calculateUrgencyDistribution") =>
    LET d == Value IN
    /\ d.total = Len(snapshot)
    /\ d.high = Cardinality({k \in 1..Len(snapshot) : snapshot[k].urgency = "high"})
    /\ d.low = Cardinality({k \in 1..Len(snapshot) : snapshot[k].urgency = "low"})
    /\ d.total = 0 => d.high_percent = 0 /\ d.low_percent = 0
    /\ d.total > 0 =>
         /\ NearestPercent(d.high_percent, d.high, d.total)
         /\ NearestPercent(d.low_percent, d.low, d.total)
         /\ d.high_percent + d.low_percent \in {99, 100, 101}

\* One high incident among eight: 12.5 and 87.5 round to 13 and 88.
C12_Witness ==
  /\ Returned("calculateUrgencyDistribution")
  /\ Value.total = 8
  /\ Value.high = 1
  /\ Value.high_percent = 13
  /\ Value.low_percent = 88

\* ---- C13 ---------------------------------------------------------------------
\* C13: the bucket totals of the timeline a full-fetch returns add up to the
\* number of incidents of its snapshot created in the window requested for
\* it, [since, until) with until the instant of the request and since one
\* time range before it; the snapshot holds no other incident.
RECURSIVE SumTotals(_)
SumTotals(timeline) ==
  IF timeline = <<>> THEN 0
  ELSE Head(timeline).total + SumTotals(Tail(timeline))

RangeMs(tr) == IF tr = "24h" THEN DayMs ELSE 7 * DayMs

InWindow(k) ==
  /\ FirstInstant - RangeMs(timeRange) <= snapshot[k].created_at
  /\ snapshot[k].created_at < FirstInstant

CalledTwice == returned.fn # "none" /\ returned.again # <<>>
Second == returned.again[1]

PureFunctions ==
  {"aggregateIncidentTimeline", "aggregateByService",
   "calculateUrgencyDistribution", "calculateAvgResolutionTime"}

RECURSIVE SumMsOver(_, _)
SumMsOver(incs, ks) ==
  IF ks = {} THEN 0
  ELSE LET k == CHOOSE x \in ks : TRUE
       IN (incs[k].resolved_at[1] - incs[k].created_at) + SumMsOver(incs, ks \ {k})

ResolvedIncidents == {k \in 1..Len(snapshot) : snapshot[k].status = "resolved"}
TimedResolved == {k \in ResolvedIncidents : snapshot[k].resolved_at # <<>>}

C15_MeanResolutionTime ==
  /\ Returned("calculateAvgResolutionTime") =>
       IF TimedResolved = {} THEN Value = <<>>
       ELSE /\ Len(Value) = 1
            /\ Value[1].count = Cardinality(TimedResolved)
            /\ Value[1].total_ms = SumMsOver(snapshot, TimedResolved)
  /\ Returned("generateDashboardData") =>
       IF TimedResolved = {} THEN Value.summary.avg_resolution_time_minutes = <<>>
       ELSE Value.summary.avg_resolution_time_minutes =
              <<[total_ms |-> SumMsOver(snapshot, TimedResolved),
                 count |-> Cardinality(TimedResolved)]>>

\* C15 as stated: the average is taken over all resolved incidents of the
\* snapshot and is null exactly when there is none.
C15_AsStated ==
  Returned("calculateAvgResolutionTime") =>
    IF ResolvedIncidents = {} THEN Value = <<>>
    ELSE /\ Value # <<>>
         /\ Value[1].count = Cardinality(ResolvedIncidents)

\* Incidents resolved after 60 and after 300 minutes, and one resolved
\* incident without resolved_at: the mean is 360 minutes over 2.
C15_Witness ==
  /\ Returned("calculateAvgResolutionTime")
  /\ Cardinality(ResolvedIncidents) = 3
  /\ Value = <<[total_ms |-> 360 * MinuteMs, count |-> 2]>>

\* ---- C16 ---------------------------------------------------------------------
\* C16: in every row of aggregateByService, and of the dashboard's
\* service_health, status is healthy for an incident_count of at most 2,
\* warning for 3 to 5 and critical above 5, whatever the urgencies, the
\* resolution times and the order of the incidents.
StatusOfCount(n) ==
  IF n <= 2 THEN "healthy" ELSE IF n <= 5 THEN "warning" ELSE "critical"

RowsClassified(rows) ==
  \A j \in 1..Len(rows) : rows[j].status = StatusOfCount(rows[j].incident_count)

BucketWidth == IF timeRange = "24h" THEN HourMs ELSE DayMs

Truncated(t) == (t \div BucketWidth) * BucketWidth

InBucket(start, status) ==
  Cardinality({k \in 1..Len(snapshot) :
     /\ Truncated(snapshot[k].created_at) = start
     /\ status \in {"any", snapshot[k].status}})

C17_TimelineBuckets ==
  Returned("aggregateIncidentTimeline") =>
    /\ \A k \in 1..Len(snapshot) :
         Cardinality({j \in 1..Len(Value) :
            Value[j].timestamp = Truncated(snapshot[k].created_at)}) = 1
    /\ \A j \in 1..Len(Value) :
         /\ Value[j].total >= 1
         /\ Value[j].total = InBucket(Value[j].timestamp, "any")
         /\ Value[j].triggered = InBucket(Value[j].timestamp, "triggered")
         /\ Value[j].acknowledged = InBucket(Value[j].timestamp, "acknowledged")
         /\ Value[j].resolved = InBucket(Value[j].timestamp, "resolved")
    /\ \A j \in 1..(Len(Value) - 1) : Value[j].timestamp < Value[j + 1].timestamp
    /\ ( /\ timeRange = "24h"
         /\ snapshot # <<>>
         /\ \A k \in 1..Len(snapshot) :
              Truncated(snapshot[k].created_at) = Truncated(snapshot[1].created_at) )
         => Len(Value) = 1

\* ---- C18 ---------------------------------------------------------------------
\* C18: the rows of aggregateByService are one per service met, in
\* descending order of incident_count; rows of equal incident_count are in
\* the order in which their services were first met: the services of the
\* catalog in catalog order, then the services of the incidents in snapshot
\* order.
Encounter ==
  [k \in 1..(Len(catalog) + Len(snapshot)) |->
     IF k <= Len(catalog) THEN catalog[k].id
     ELSE snapshot[k - Len(catalog)].service]

FirstMet(id) ==
  CHOOSE k \in DOMAIN Encounter :
    Encounter[k] = id /\ \A j \in 1..(k - 1) : Encounter[j] # id

C18_ServiceHealthOrder ==
  Returned("aggregateByService") =>
    /\ {Value[j].service_id : j \in 1..Len(Value)}
         = {Encounter[k] : k \in DOMAIN Encounter}
    /\ \A i, j \in 1..Len(Value) :
         i # j => Value[i].service_id # Value[j].service_id
    /\ \A j \in 1..(Len(Value) - 1) :
         /\ Value[j].incident_count >= Value[j + 1].incident_count
         /\ Value[j].incident_count = Value[j + 1].incident_count
              => FirstMet(Value[j].service_id) < FirstMet(Value[j + 1].service_id)

\* Three services with one incident each: the two of the catalog come first,
\* in catalog order, although the snapshot starts with the third service.
C18_Witness ==
  /\ Returned("aggregateByService")
  /\ Len(snapshot) = 3
  /\ snapshot[1].service = "s3"
  /\ snapshot[2].service = "s1"
  /\ [j \in 1..Len(Value) |-> Value[j].service_id] = <<"s2", "s1", "s3">>
  /\ \A j \in 1..Len(Value) : Value[j].incident_count = 1

\* ---- C19 ---------------------------------------------------------------------
\* C19: in the live-poll payload active_incidents is the number of
\* triggered or acknowledged incidents, triggered_count and
\* acknowledged_count the numbers per status; recent_incidents holds
\* min(5, active) distinct incidents, all active, newest created_at first,
\* and no active incident left out is newer than one included.
ActiveIncidents ==
  {k \in 1..Len(snapshot) : snapshot[k].status \in {"triggered", "acknowledged"}}

C19_LivePollPayload ==
  Returned("generateIncidentStats") =>
    LET recent == Value.recent_incidents
        listed == {recent[j].id : j \in 1..Len(recent)}
    IN /\ Value.active_incidents = Cardinality(ActiveIncidents)
       /\ Value.triggered_count =
            Cardinality({k \in 1..Len(snapshot) : snapshot[k].status = "triggered"})
       /\ Value.acknowledged_count =
            Cardinality({k \in 1..Len(snapshot) : snapshot[k].status = "acknowledged"})
       /\ Len(recent) = Min(5, Cardinality(ActiveIncidents))
       /\ Cardinality(listed) = Len(recent)
       /\ listed \subseteq ActiveIncidents
       /\ \A j \in 1..Len(recent) :
            /\ recent[j].status = snapshot[recent[j].id].status
            /\ recent[j].created_at = snapshot[recent[j].id].created_at
       /\ \A j \in 1..(Len(recent) - 1) :
            recent[j].created_at >= recent[j + 1].created_at
       /\ \A k \in ActiveIncidents \ listed : \A j \in 1..Len(recent) :
            snapshot[k].created_at <= recent[j].created_at

\* Seven active incidents, the three older ones first in the snapshot: the
\* four newer ones and one older one are listed, the newer ones first.
C19_Witness ==
  /\ Returned("generateIncidentStats")
  /\ Len(snapshot) = 7
  /\ Value.active_incidents = 7
  /\ snapshot[1].created_at < snapshot[7].created_at
  /\ Len(Value.recent_incidents) = 5
  /\ Value.recent_incidents[1].created_at = snapshot[7].created_at
  /\ Value.recent_incidents[5].created_at = snapshot[1].created_at

\* ---- C20 ---------------------------------------------------------------------
\* C20: getOrFetch calls for one key that are under way at the same time
\* have each invoked the fetcher: two tool calls waiting on the same
\* incidents key, or both on the services key, have made one upstream
\* request each.
C20_NoSingleFlight ==
  \A a, b \in Clients :
    a # b =>
      /\ ( /\ Called(calls[a]) /\ Called(calls[b])
           /\ calls[a].key = calls[b].key
           /\ calls[a].inc.st = "pending" /\ calls[b].inc.st = "pending" )
           => calls[a].inc.attempts + calls[b].inc.attempts = 2
      /\ (calls[a].svc.st = "pending" /\ calls[b].svc.st = "pending")
           => calls[a].svc.attempts + calls[b].svc.attempts = 2

\* tabB's poll arrived while tabA's request for the same key was under way
\* and nothing was cached: both requests are in flight.
C20_Witness ==
  /\ PollOf("tabA") /\ PollOf("tabB")
  /\ calls["tabA"].inc.st = "pending"
  /\ calls["tabB"].inc.st = "pending"
  /\ calls["tabB"].startedAt > calls["tabA"].startedAt
  /\ calls["tabA"].inc.attempts = 1
  /\ calls["tabB"].inc.attempts = 1
  /\ PollKey \notin DOMAIN cache

\* ---- C26 ---------------------------------------------------------------------
\* The incidents of a service that are resolved and carry a resolved_at.
TimedResolvedOf(id) == {k \in TimedResolved : snapshot[k].service = id}

RowsAveraged(rows) ==
  \A j \in 1..Len(rows) :
    LET mine == TimedResolvedOf(rows[j].service_id)
    IN IF mine = {} THEN rows[j].avg_resolution_time_minutes = <<>>
       ELSE rows[j].avg_resolution_time_minutes =
              <<[total_ms |-> SumMsOver(snapshot, mine),
                 count |-> Cardinality(mine)]>>

\* C26: in every ServiceHealth row, avg_resolution_time_minutes is the mean
\* of resolved_at - created_at over that service's incidents that are
\* resolved and carry a resolved_at, and null when the service has none;
\* no incident of another service enters it.
C26_ServiceMeanResolution ==
  /\ Returned("aggregateByService") => RowsAveraged(Value)
  /\ Returned("generateDashboardData") => RowsAveraged(Value.service_health)

\* Two services with different means (60 and 300 minutes) next to a service
\* whose incidents carry no resolution: its mean is null.
C26_Witness ==
  /\ Returned("aggregateByService")
  /\ \E a, b, c \in 1..Len(Value) :
       /\ Value[a].avg_resolution_time_minutes =
            <<[total_ms |-> 60 * MinuteMs, count |-> 1]>>
       /\ Value[b].avg_resolution_time_minutes =
            <<[total_ms |-> 300 * MinuteMs, count |-> 1]>>
       /\ Value[c].avg_resolution_time_minutes = <<>>
       /\ Value[c].incident_count > 0

\* ==== properties of the DataCache used directly ===============================
\* The operation made last.
Did(op) == last.op = op

\* ---- C21 ---------------------------------------------------------------------
\* C21: the sweep is not needed for correctness.  Of two DataCaches given
\* the same getOrFetch, get, set, invalidate, invalidatePattern and clear
\* operations at the same clock values, one swept by its interval and one
\* never swept, every operation returns the same value from both and
\* invokes the fetcher in both or in neither.
C21_SweepAdvisory ==
  /\ last.val = last.twinVal
  /\ last.invoked = last.twinInvoked
  /\ \A f \in fetches : f.real /\ f.twin

\* A getOrFetch was made for a key whose expired entry a sweep had removed
\* and the unswept map still holds: the fetcher runs for both.
C21_Witness ==
  /\ Did("getOrFetch")
  /\ last.invoked
  /\ last.keys \subseteq DOMAIN unswept
  /\ last.keys \cap DOMAIN cache = {}

\* ---- C22 ---------------------------------------------------------------------
\* The interval's callback runs in this step (nothing else reschedules it).
Sweeps == nextSweep' # nextSweep

\* The age of the entry of key k has reached its ttl.
PastExpiry(k) == k \in DOMAIN cache /\ now - cache[k].timestamp >= cache[k].ttl

\* C22: a sweep removes exactly the entries past expiry: after cleanup no
\* entry with now - timestamp >= ttl is in the map and every entry with
\* now - timestamp < ttl is there unchanged; and with the interval firing
\* when it is due, an entry past expiry does not stay: it is removed, or
\* replaced by a later write.
C22_SweepExact ==
  /\ [][Sweeps =>
          /\ DOMAIN cache' = {k \in DOMAIN cache : ~PastExpiry(k)}
          /\ \A k \in DOMAIN cache' : cache'[k] = cache[k]]_vars
  /\ \A k \in DirectKeys : PastExpiry(k) ~> ~PastExpiry(k)

\* A sweep has just removed an entry past its expiry (the unswept map still
\* holds it) and left one that was written earlier and is not yet expired.
C22_Witness ==
  /\ nextSweep = now + SweepInterval
  /\ \E k \in DOMAIN unswept \ DOMAIN cache :
       now - unswept[k].timestamp >= unswept[k].ttl
  /\ \E j \in DOMAIN cache :
       /\ cache[j].timestamp < now
       /\ now - cache[j].timestamp < cache[j].ttl

\* ---- C24 ---------------------------------------------------------------------
\* An operation of the given name returns in this step.
Does(op) == ops' = ops + 1 /\ last'.op = op

Evictions == {"invalidate", "invalidatePattern", "clear"}

\* The map after the step is the map before it without the given keys.
Removes(keys) ==
  /\ DOMAIN cache' = DOMAIN cache \ keys
  /\ \A k \in DOMAIN cache' : cache'[k] = cache[k]

\* invalidate(key) removes that key's entry only, invalidatePattern the
\* entries whose key matches only, clear every entry.
EvictionFrame ==
  [][/\ Does("invalidate") => Removes(last'.keys)
     /\ Does("invalidatePattern") =>
          /\ Removes({k \in DOMAIN cache : k \in last'.keys})
          /\ \A k \in last'.keys : k.prefix \in Patterns
          /\ \A k \in DOMAIN cache, j \in last'.keys :
               k.prefix = j.prefix => k \notin DOMAIN cache'
          /\ \A k \in DOMAIN cache, j \in last'.keys :
               k.prefix # j.prefix => k \in DOMAIN cache'
     /\ Does("clear") => cache' = EmptyCache
    ]_vars

\* The first operation after an eviction is a getOrFetch for a key the
\* eviction addressed: it invokes the fetcher.
EvictedThenFetched ==
  [][(last.op \in Evictions /\ Does("getOrFetch") /\ last'.keys \subseteq last.keys)
       => last'.invoked]_vars

\* C24: invalidate(key) removes the entry of that key and leaves every
\* other entry unchanged; invalidatePattern(regex) removes exactly the
\* entries whose key matches (with /^incidents:/ every incidents entry and
\* no services entry); clear() leaves the map empty; and after any of them
\* the next getOrFetch for a removed key invokes the fetcher.
C24_Eviction == EvictionFrame /\ EvictedThenFetched

\* ==== further properties of the server =========================================
\* ---- C23 ---------------------------------------------------------------------
\* Client cl's full-fetch has been superseded: the other client made a tool
\* call after it.
Superseded(cl) ==
  /\ calls[cl].tool = "dashboard"
  /\ \E other \in Clients \ {cl} :
       /\ Called(calls[other])
       /\ calls[other].startedAt > calls[cl].startedAt

\* What a reader of the key finds at clock value t.
Lookup(c, key, t) == getOrFetchStart(c, key, env, t)

\* The entry a getOrFetch writes at clock value t.
Written(data, ttl, t) == [data |-> data, timestamp |-> t, ttl |-> ttl]

\* C23: nothing cancels a full-fetch.  The arrival of a newer tool call
\* leaves the requests of an earlier full-fetch under way, and when a
\* request of a superseded full-fetch succeeds its result is written to the
\* cache under its key, where every lookup of that key at an instant within
\* the TTL of the write is a hit that returns it.
C23_NoCancellation ==
  [][\A cl \in Clients :
       /\ (\E other \in Clients \ {cl} : Arrives(other)) =>
            calls'[cl] = calls[cl]
       /\ (Superseded(cl) /\ IncidentsSettles(cl) /\ calls'[cl].inc.st = "ok") =>
            /\ calls[cl].key \in DOMAIN cache'
            /\ cache'[calls[cl].key] =
                 Written(calls'[cl].inc.data[1], TTL_INCIDENTS, now)
            /\ \A t \in Instants :
                 (t >= now /\ t - now < TTL_INCIDENTS) =>
                   /\ Lookup(cache', calls[cl].key, t).st = "hit"
                   /\ Lookup(cache', calls[cl].key, t).data = calls'[cl].inc.data
       /\ (Superseded(cl) /\ ServicesSettles(cl) /\ calls'[cl].svc.st = "ok") =>
            /\ SvcKey \in DOMAIN cache'
            /\ cache'[SvcKey] = Written(calls'[cl].svc.data[1], TTL_STATIC, now)
            /\ \A t \in Instants :
                 (t >= now /\ t - now < TTL_STATIC) =>
                   /\ Lookup(cache', SvcKey, t).st = "hit"
                   /\ Lookup(cache', SvcKey, t).data = calls'[cl].svc.data
    ]_vars

\* tabA's full-fetch was superseded by a call of tabB while both of its
\* requests were under way; both have since succeeded and their results
\* are the entries of the cache.
C23_Witness ==
  /\ Superseded("tabA")
  /\ calls["tabA"].inc.st = "ok"
  /\ calls["tabA"].svc.st = "ok"
  /\ calls["tabA"].key \in DOMAIN cache
  /\ SvcKey \in DOMAIN cache
  /\ cache[calls["tabA"].key].timestamp > calls["tabB"].startedAt
  /\ cache[SvcKey].timestamp > calls["tabB"].startedAt
  /\ cache[calls["tabA"].key].data = calls["tabA"].inc.data[1]
  /\ cache[SvcKey].data = calls["tabA"].svc.data[1]
  /\ ~Finished(calls["tabB"])


\* ---- C25 ---------------------------------------------------------------------
\* The map with the entry of one key only.
Only(c, key) == [k \in DOMAIN c \cap {key} |-> c[k]]

\* Every entry but the one of the active-incident filter is as it was.
OthersUnchanged ==
  /\ DOMAIN cache' \ {PollKey} = DOMAIN cache \ {PollKey}
  /\ \A k \in DOMAIN cache \ {PollKey} : cache'[k] = cache[k]

\* C25: a live-poll makes no services request and computes no dashboard
\* payload: its only request is the one for the active-incident filter and
\* its payload is generateIncidentStats of that list.  What it finds in the
\* cache depends on the entry of that filter alone, and its steps leave
\* every other entry (services, full-fetch incidents) unchanged.
C25_PollIsLight ==
  /\ [](\A cl \in Clients :
          PollOf(cl) =>
            /\ calls[cl].svc = NoPart
            /\ calls[cl].key = PollKey
            /\ Succeeded(calls[cl]) =>
                 /\ Resolved(calls[cl].inc)
                 /\ \E t \in Instants :
                      Payload(calls[cl]) =
                        generateIncidentStats(calls[cl].inc.data[1], t))
  /\ [][\A cl \in Clients :
          /\ (Arrives(cl) /\ PollOf(cl)') =>
               /\ calls'[cl].inc = Lookup(Only(cache, PollKey), PollKey, now)
               /\ cache' = cache
          /\ (PollOf(cl) /\ IncidentsSettles(cl)) => OthersUnchanged
       ]_vars

\* tabB's poll fetched the active incidents and returned, while the cache
\* held the services entry and the incidents entry of tabA's full-fetch.
C25_Witness ==
  /\ calls["tabA"].tool = "dashboard"
  /\ PollOf("tabB")
  /\ calls["tabB"].inc.st = "ok"
  /\ Succeeded(calls["tabB"])
  /\ {SvcKey, calls["tabA"].key, PollKey} \subseteq DOMAIN cache
  /\ cache[SvcKey].timestamp < cache[PollKey].timestamp
  /\ cache[calls["tabA"].key].timestamp < cache[PollKey].timestamp


\* ---- C27 ---------------------------------------------------------------------
\* The since/until window of the incidents request of a full-fetch.
FetchedWindow(c) == c.key.params.window[1]

\* C27: the time_range a full-fetch reports in its payload is the window it
\* resolved the label to and fetched the incidents with: start is the
\* request's since, end its until, label the requested range.
C27_WindowReported ==
  \A cl \in Clients :
    (calls[cl].tool = "dashboard" /\ Succeeded(calls[cl])) =>
      /\ Payload(calls[cl]).label = calls[cl].timeRange
      /\ Payload(calls[cl]).start = FetchedWindow(calls[cl]).since
      /\ Payload(calls[cl]).end = FetchedWindow(calls[cl]).until

\* ---- C28 ---------------------------------------------------------------------
\* A list call that returned a collection with no records.
ReturnedEmpty(part) == Resolved(part) /\ part.data[1].n = 0

\* A list call that ended with the given error and no collection.
FailedWith(part, err) == part.st = "failed" /\ part.err = err /\ part.data = <<>>

\* C28: a failure at the upstream boundary is never reported as no data.
\* With a credential missing every list call fails with the configuration
\* error; a request answered with a non-success status makes its list call
\* fail with that status, stores nothing, and its tool call ends as an
\* error; and a list call returns an empty collection only from a
\* successful answer with zero records (its own, or the stored one of an
\* earlier call).
C28_FailureIsNotEmpty ==
  /\ [](/\ ~getCredentials(env) =>
             \A cl \in Clients :
               Called(calls[cl]) =>
                 /\ FailedWith(calls[cl].inc, "config")
                 /\ calls[cl].tool = "dashboard" => FailedWith(calls[cl].svc, "config")
        /\ \A k \in DOMAIN cache : cache[k].data.n = 0 => cache[k].data.total = 0
        /\ \A cl \in Clients :
             /\ ReturnedEmpty(calls[cl].inc) => calls[cl].inc.data[1].total = 0
             /\ ReturnedEmpty(calls[cl].svc) => calls[cl].svc.data[1].total = 0
             /\ (calls[cl].inc.st = "failed" \/ calls[cl].svc.st = "failed") =>
                  /\ calls[cl].result # <<>>
                  /\ calls[cl].result[1].isError
                  /\ calls[cl].result[1].structured = <<>>)
  /\ [][\A cl \in Clients :
          /\ (IncidentsSettles(cl) /\ upstream.mode # "ok") =>
               /\ FailedWith(calls'[cl].inc, upstream.mode)
               /\ cache' = cache
          /\ (ServicesSettles(cl) /\ upstream.mode # "ok") =>
               /\ FailedWith(calls'[cl].svc, upstream.mode)
               /\ cache' = cache
          /\ (IncidentsSettles(cl) /\ ReturnedEmpty(calls'[cl].inc)) =>
               upstream.mode = "ok" /\ upstream.incidents.total = 0
          /\ (ServicesSettles(cl) /\ ReturnedEmpty(calls'[cl].svc)) =>
               upstream.mode = "ok" /\ upstream.services.total = 0
       ]_vars

\* tabA's poll was answered 503 and ended as an error; the outage over,
\* tabB's poll was answered with zero incidents and returned them.
C28_Witness ==
  /\ PollOf("tabA") /\ PollOf("tabB")
  /\ FailedWith(calls["tabA"].inc, "api_503")
  /\ calls["tabA"].result[1].isError
  /\ calls["tabB"].inc.st = "ok"
  /\ ReturnedEmpty(calls["tabB"].inc)
  /\ Succeeded(calls["tabB"])

\* ==== further properties of the DataCache used directly =======================
\* ---- C29 ---------------------------------------------------------------------
\* C29: eviction is effective against fetches under way.  A getOrFetch
\* answered from the cache never returns a value whose fetcher was invoked
\* before an invalidate, invalidatePattern or clear of its key returned.
C29_EvictionEffective ==
  (Did("getOrFetch") /\ ~last.invoked) => ~last.val[1].overtaken

\* ---- C30 ---------------------------------------------------------------------
\* The fetcher f of a getOrFetch comes to its end in this step.
Completes(f) == f \in fetches /\ fetches' = fetches \ {f} /\ ops' = ops

\* The entry of key k is new or another one after the step.
Rewritten(k) ==
  /\ k \in DOMAIN cache'
  /\ k \notin DOMAIN cache \/ cache'[k] # cache[k]

\* C30: when a fetcher completes, what it leaves under its key is its own
\* result with the clock value of the completion and its call's ttl,
\* whatever entry an overlapping call wrote there before (or nothing, when
\* it rejected), and no other entry changes; and every entry that appears
\* or changes in any step is the whole (data, timestamp, ttl) of one call:
\* of the fetcher completing in that step or of the set made in it.
C30_LastWriterWins ==
  [][/\ \A f \in fetches :
          Completes(f) =>
            /\ \/ cache' = cache
               \/ /\ f.key \in DOMAIN cache'
                  /\ cache'[f.key] = Written(Datum(f.id, f.overtaken), f.ttl, now)
            /\ \A k \in DOMAIN cache \ {f.key} :
                 k \in DOMAIN cache' /\ cache'[k] = cache[k]
     /\ \A k \in DirectKeys :
          Rewritten(k) =>
            \/ \E f \in fetches :
                 /\ Completes(f) /\ f.key = k
                 /\ cache'[k] = Written(Datum(f.id, f.overtaken), f.ttl, now)
            \/ /\ Does("set") /\ last'.keys = {k}
               /\ \E ttl \in DirectTtls :
                    cache'[k] = Written(Datum(ops', FALSE), ttl, now)
    ]_vars

\* Two getOrFetch calls for one key overlapped.  The second one's fetcher
\* completed first (a get returned its value); the fetcher of the call that
\* started first completed after it, and the entry is now its result.
C30_Witness ==
  /\ Did("get")
  /\ last.val = <<Datum(2, FALSE)>>
  /\ fetches = {}
  /\ \E k \in last.keys :
       /\ k \in DOMAIN cache
       /\ cache[k].data = Datum(1, FALSE)
       /\ cache[k].timestamp = now
       /\ now > 0

\* ---- C31 ---------------------------------------------------------------------
\* An earlier full-fetch of the time range succeeded with a request of its
\* own and what it stored is still in the map and younger than its TTL.
StoredFullFetch(c, tr, t) ==
  /\ c.tool = "dashboard"
  /\ c.timeRange = tr
  /\ Succeeded(c)
  /\ c.inc.st = "ok"
  /\ t - c.startedAt < TTL_INCIDENTS
  /\ c.key \in DOMAIN cache
  /\ Fresh(cache[c.key], t)

\* C31: a get-incident-dashboard call that arrives less than 30 s after a
\* successful one with the same timeRange has the same incident cache key,
\* is served the stored incident snapshot, and starts no /incidents request.
C31_FullFetchReuse ==
  [][\A cl \in Clients, tr \in RequestedRanges :
       (StartDashboard(cl, tr) /\ \E first \in Clients : StoredFullFetch(calls[first], tr, now)) =>
         \A first \in Clients :
           StoredFullFetch(calls[first], tr, now) =>
             /\ calls'[cl].key = calls[first].key
             /\ calls'[cl].inc.st = "hit"
             /\ calls'[cl].inc.attempts = 0]_vars

\* The one case of reuse: the second call arrives within the millisecond of
\* the first, so both read the same clock value into since and until.
C31_SameMillisecond ==
  \E cl \in Clients :
    /\ calls[cl].tool = "dashboard"
    /\ calls[cl].inc.st = "hit"
    /\ calls[cl].key = IncidentsKey(RecentParams(calls[cl].timeRange, now))

\* ---- C32 ---------------------------------------------------------------------
\* The getOrFetch of the key made by cl's call has failed.
FailedOn(cl, key) ==
  \/ key = calls[cl].key /\ calls[cl].inc.st = "failed"
  \/ key = SvcKey /\ calls[cl].svc.st = "failed"

\* A getOrFetch of cl's call fails in this step: at once when a credential
\* is missing, or when its request ends.
FailsNow(cl) ==
  \/ Arrives(cl) /\ "failed" \in {calls'[cl].inc.st, calls'[cl].svc.st}
  \/ IncidentsSettles(cl) /\ calls'[cl].inc.st = "failed"
  \/ ServicesSettles(cl) /\ calls'[cl].svc.st = "failed"

\* C32: a getOrFetch that fails leaves the cache map as it was at the moment
\* of the failure, for every key; and an expired entry that is in the map
\* under the key of a failed getOrFetch is served neither by getOrFetch nor
\* by get at that or any later clock value.
C32_FailureLeavesMap ==
  /\ [][\A cl \in Clients : FailsNow(cl) => cache' = cache]_vars
  /\ [](\A cl \in Clients, key \in DOMAIN cache :
          (FailedOn(cl, key) /\ Expired(cache[key], now)) =>
            \A t \in Instants :
              t >= now =>
                /\ Lookup(cache, key, t).st # "hit"
                /\ Lookup(cache, key, t).data = <<>>
                /\ DataCacheGet(cache, key, t).val = <<>>)

\* A poll found the entry of an earlier poll expired, its request was
\* answered with an error status, and the expired entry is still in the map.
C32_Witness ==
  \E cl \in Clients :
    /\ PollOf(cl)
    /\ calls[cl].inc.st = "failed"
    /\ calls[cl].inc.err # "config"
    /\ PollKey \in DOMAIN cache
    /\ cache[PollKey].timestamp + cache[PollKey].ttl <= calls[cl].startedAt
    /\ Expired(cache[PollKey], now)

\* ---- C33 ---------------------------------------------------------------------
\* One of the two fetches of a full-fetch failed and the other succeeded
\* with a request of its own.
IncidentsOnly(c) == c.tool = "dashboard" /\ c.inc.st = "ok" /\ c.svc.st = "failed"
ServicesOnly(c) == c.tool = "dashboard" /\ c.svc.st = "ok" /\ c.inc.st = "failed"

\* The two fetches of a full-fetch are started in the step of its arrival,
\* the end of one leaves the other as it is, a success is written under its
\* key whatever became of the other, a failure writes nothing, and the call
\* with one of each returns the error-flagged result.
C33_Halves ==
  /\ [][\A cl \in Clients :
          /\ (Arrives(cl) /\ calls'[cl].tool = "dashboard") =>
               /\ calls'[cl].inc.st # "unused"
               /\ calls'[cl].svc.st # "unused"
               /\ cache' = cache
          /\ IncidentsSettles(cl) => calls'[cl].svc = calls[cl].svc
          /\ ServicesSettles(cl) => calls'[cl].inc = calls[cl].inc
          /\ (calls[cl].tool = "dashboard" /\ IncidentsSettles(cl)) =>
               IF calls'[cl].inc.st = "ok"
                 THEN cache' = CacheSet(cache, calls[cl].key, calls'[cl].inc.data[1],
                                        TTL_INCIDENTS, now)
                 ELSE cache' = cache
          /\ (calls[cl].tool = "dashboard" /\ ServicesSettles(cl)) =>
               IF calls'[cl].svc.st = "ok"
                 THEN cache' = CacheSet(cache, SvcKey, calls'[cl].svc.data[1],
                                        TTL_STATIC, now)
                 ELSE cache' = cache]_vars
  /\ [](\A cl \in Clients :
          (IncidentsOnly(calls[cl]) \/ ServicesOnly(calls[cl])) =>
            /\ calls[cl].result # <<>>
            /\ calls[cl].result[1].isError
            /\ ~calls[cl].result[1].thrown
            /\ calls[cl].result[1].structured = <<>>)

\* The services snapshot a full-fetch stored while its incidents fetch
\* failed is a hit for the full-fetch that arrives next within its TTL.
C33_ServicesReused ==
  [][\A cl, first \in Clients, tr \in RequestedRanges :
       (/\ StartDashboard(cl, tr)
        /\ ServicesOnly(calls[first])
        /\ SvcKey \in DOMAIN cache
        /\ cache[SvcKey].data = calls[first].svc.data[1]
        /\ now - cache[SvcKey].timestamp < TTL_STATIC) =>
         /\ calls'[cl].svc.st = "hit"
         /\ calls'[cl].svc.data = calls[first].svc.data]_vars

\* The same of the incidents snapshot stored while the services fetch
\* failed, for a next full-fetch of the same time range.
C33_IncidentsReused ==
  [][\A cl, first \in Clients, tr \in RequestedRanges :
       (/\ StartDashboard(cl, tr)
        /\ IncidentsOnly(calls[first])
        /\ calls[first].timeRange = tr
        /\ calls[first].key \in DOMAIN cache
        /\ cache[calls[first].key].data = calls[first].inc.data[1]
        /\ now - cache[calls[first].key].timestamp < TTL_INCIDENTS) =>
         /\ calls'[cl].inc.st = "hit"
         /\ calls'[cl].inc.data = calls[first].inc.data]_vars

\* C33: the incidents fetch and the services fetch of a full-fetch are
\* started together and are independent; when one fails and the other
\* succeeds the tool returns the error-flagged result, the successful
\* snapshot is written to the cache and is a hit for the next call within
\* its TTL, and nothing is written for the failed one.
C33_IndependentFetches ==
  /\ C33_Halves
  /\ C33_ServicesReused
  /\ C33_IncidentsReused

\* Each of the two mixed outcomes, with the successful snapshot in the map.
C33_MixedOutcomes ==
  \/ \E cl \in Clients :
       /\ ServicesOnly(calls[cl])
       /\ SvcKey \in DOMAIN cache
       /\ calls[cl].key \notin DOMAIN cache
  \/ \E cl \in Clients :
       /\ IncidentsOnly(calls[cl])
       /\ calls[cl].key \in DOMAIN cache
       /\ SvcKey \notin DOMAIN cache

\* A full-fetch whose incidents fetch failed stored the services snapshot,
\* and the full-fetch after it was served that snapshot.
C33_ServicesServedNext ==
  \E first, cl \in Clients :
    /\ ServicesOnly(calls[first])
    /\ calls[cl].tool = "dashboard"
    /\ calls[cl].startedAt > calls[first].startedAt
    /\ calls[cl].svc.st = "hit"
    /\ calls[cl].svc.data = calls[first].svc.data

\* ---- C34 ---------------------------------------------------------------------
\* The getOrFetch of a key that arrives in this step with the given outcome
\* is a hit on an entry of the map younger than its stored TTL.
HitWithinTtl(part, key) ==
  part.st = "hit" =>
    /\ key \in DOMAIN cache
    /\ part.data = <<cache[key].data>>
    /\ part.attempts = 0
    /\ now - cache[key].timestamp < cache[key].ttl
    /\ now >= cache[key].timestamp

\* C34: a value getOrFetch returns as a hit is that of an entry stored less
\* than the entry's TTL before the read; a value it returns on a miss is
\* the result of the one fetcher the call itself invoked; and the entry it
\* writes carries the clock value at which the fetcher completed, not the
\* one at which the call started.
C34_StalenessBound ==
  [][\A cl \in Clients :
       /\ Arrives(cl) =>
            /\ HitWithinTtl(calls'[cl].inc, calls'[cl].key)
            /\ HitWithinTtl(calls'[cl].svc, SvcKey)
       /\ (IncidentsSettles(cl) /\ calls'[cl].inc.st = "ok") =>
            /\ calls[cl].inc.attempts = 1
            /\ calls'[cl].inc.attempts = 1
            /\ calls'[cl].inc.data =
                 Response(upstream, upstream.incidents, ApiLimit(calls[cl].key.params)).body
            /\ cache'[calls[cl].key].data = calls'[cl].inc.data[1]
            /\ cache'[calls[cl].key].timestamp = now
       /\ (ServicesSettles(cl) /\ calls'[cl].svc.st = "ok") =>
            /\ calls[cl].svc.attempts = 1
            /\ calls'[cl].svc.attempts = 1
            /\ calls'[cl].svc.data =
                 Response(upstream, upstream.services, ApiLimit(ServicesParams)).body
            /\ cache'[SvcKey].data = calls'[cl].svc.data[1]
            /\ cache'[SvcKey].timestamp = now]_vars

\* A poll's request was answered after the clock had advanced, the entry is
\* stamped with the later value, and the other client's poll was a hit on it.
C34_Witness ==
  \E cl \in Clients, other \in Clients :
    /\ PollOf(cl) /\ PollOf(other)
    /\ calls[cl].inc.st = "ok"
    /\ PollKey \in DOMAIN cache
    /\ cache[PollKey].data = calls[cl].inc.data[1]
    /\ cache[PollKey].timestamp > calls[cl].startedAt
    /\ calls[other].inc.st = "hit"
    /\ calls[other].inc.data = calls[cl].inc.data
    /\ calls[other].startedAt >= cache[PollKey].timestamp
    /\ calls[other].startedAt - cache[PollKey].timestamp < TTL_INCIDENTS

\* ---- C35 ---------------------------------------------------------------------
\* The entry under the key is younger than the TTL stored with it.
WithinStoredTtl(key) ==
  /\ key \in DOMAIN cache
  /\ now - cache[key].timestamp < cache[key].ttl

\* C35: whether getOrFetch hits is decided by the TTL stored with the entry
\* and not by the ttl argument of the read: with either argument the call is
\* a hit that returns the stored value exactly when the entry is younger
\* than its stored TTL, and the argument is only the TTL of the entry that
\* is written after a miss.
C35_StoredTtlDecides ==
  [][/\ \A key \in DirectKeys, ttl \in DirectTtls :
          GetOrFetch(key, ttl) =>
            IF WithinStoredTtl(key)
              THEN /\ ~last'.invoked
                   /\ last'.val = <<cache[key].data>>
                   /\ fetches' = fetches
                   /\ cache' = cache
              ELSE /\ last'.invoked
                   /\ last'.val = <<>>
                   /\ \E f \in fetches' \ fetches :
                        f.key = key /\ f.ttl = ttl /\ f.real
     /\ \A f \in fetches :
          (FetcherResolves(f) /\ f.real) =>
            /\ f.key \in DOMAIN cache'
            /\ cache'[f.key].ttl = f.ttl
            /\ cache'[f.key].timestamp = now]_vars

\* A getOrFetch was a hit on an entry stored with TTL.METRICS whose age is
\* TTL.INCIDENTS or more: older than the shorter of the two arguments.
C35_Witness ==
  \E k \in DirectKeys :
    /\ last.op = "getOrFetch"
    /\ last.keys = {k}
    /\ ~last.invoked
    /\ k \in DOMAIN cache
    /\ last.val = <<cache[k].data>>
    /\ cache[k].ttl = TTL_METRICS
    /\ now - cache[k].timestamp >= TTL_INCIDENTS
    /\ now - cache[k].timestamp < TTL_METRICS

\* ---- C36 ---------------------------------------------------------------------
RECURSIVE SumIncidentCounts(_)
SumIncidentCounts(rows) ==
  IF rows = <<>> THEN 0
  ELSE Head(rows).incident_count + SumIncidentCounts(Tail(rows))

\* Every bucket's three status counts add up to its total.
BucketsConsistent(timeline) ==
  \A j \in 1..Len(timeline) :
    timeline[j].triggered + timeline[j].acknowledged + timeline[j].resolved
      = timeline[j].total

\* Every row's two urgency counts add up to its incident_count, and the
\* incident_counts add up to the size of the snapshot.
RowsConsistent(rows) ==
  /\ \A j \in 1..Len(rows) :
       rows[j].high_urgency_count + rows[j].low_urgency_count
         = rows[j].incident_count
  /\ SumIncidentCounts(rows) = Len(snapshot)

DistributionConsistent(dist) ==
  /\ dist.high + dist.low = dist.total
  /\ dist.total = Len(snapshot)

\* C36: the counts of every aggregate are consistent.  In each timeline
\* bucket triggered + acknowledged + resolved = total; in each ServiceHealth
\* row high_urgency_count + low_urgency_count = incident_count, and the
\* incident_counts of all rows add up to the number of incidents of the
\* snapshot; urgency_distribution.high + low = total = total_incidents; and
\* in a live-poll result triggered_count + acknowledged_count =
\* active_incidents.
C36_CountsConsistent ==
  /\ Returned("aggregateIncidentTimeline") => BucketsConsistent(Value)
  /\ Returned("aggregateByService") => RowsConsistent(Value)
  /\ Returned("calculateUrgencyDistribution") => DistributionConsistent(Value)
  /\ Returned("generateDashboardData") =>
       /\ BucketsConsistent(Value.timeline)
       /\ RowsConsistent(Value.service_health)
       /\ DistributionConsistent(Value.urgency_distribution)
       /\ Value.urgency_distribution.total = Value.summary.total_incidents
  /\ Returned("generateIncidentStats") =>
       /\ Value.triggered_count + Value.acknowledged_count = Value.active_incidents
       /\ Value.high_urgency_count + Value.low_urgency_count = Len(snapshot)

\* A live-poll result over a snapshot with a triggered, an acknowledged and
\* a resolved incident of both urgencies.
C36_Witness ==
  /\ Returned("generateIncidentStats")
  /\ Len(snapshot) = 3
  /\ Value.triggered_count = 1
  /\ Value.acknowledged_count = 1
  /\ Value.active_incidents = 2
  /\ Value.high_urgency_count >= 1
  /\ Value.low_urgency_count >= 1

\* ---- C37 ---------------------------------------------------------------------
\* C37: aggregation never modifies its input.  Every call of an aggregation
\* function, the first and a later one on the same arrays, leaves the
\* incidents array and the services array with the same elements in the
\* same order; these are the arrays a cache hit hands out again.
C37_InputsUntouched ==
  [][/\ snapshot' = snapshot
     /\ catalog' = catalog]_vars

\* generateIncidentStats ran twice on a snapshot whose active incidents are
\* not in newest-first order: what it returns is reordered, the snapshot is
\* in the order it was given (id is the position).
C37_Witness ==
  /\ Returned("generateIncidentStats")
  /\ CalledTwice
  /\ Len(Value.recent_incidents) >= 2
  /\ Value.recent_incidents[1].id > Value.recent_incidents[2].id
  /\ \A k \in 1..Len(snapshot) : snapshot[k].id = k
  /\ returned.again[1].recent_incidents = Value.recent_incidents

\* ---- C38 ---------------------------------------------------------------------
\* The keys of the requests made so far and of the entries in the map.
KeysInUse ==
  DOMAIN cache \cup {SvcKey} \cup {calls[cl].key : cl \in {c \in Clients : Called(calls[c])}}

\* The page is one answered to a request with the key's limit.
PageOf(key, page) == page.n = Min(ApiLimit(key.params), page.total)

\* Every entry but the one under the key is as it was.
FrameOf(key) ==
  /\ DOMAIN cache' \ {key} = DOMAIN cache \ {key}
  /\ \A k \in DOMAIN cache \ {key} : cache'[k] = cache[k]

\* C38: cache keys separate requests.  Requests with different filters, and
\* an incidents request and a services request, have different key strings;
\* a list call reads the entry under its own key only and its write leaves
\* every other entry as it was; so the entry under a key is always a page
\* answered to that key's request, a live-poll is served pages of the
\* active-status request only and a full-fetch pages of its own request.
C38_KeysSeparate ==
  /\ [](\A k1 \in KeysInUse, k2 \in KeysInUse :
          CacheKeyText(k1) = CacheKeyText(k2) => k1 = k2)
  /\ [](\A cl \in Clients :
          /\ PollOf(cl) => calls[cl].key = PollKey
          /\ calls[cl].tool = "dashboard" =>
               /\ calls[cl].key.params.statuses = <<>>
               /\ calls[cl].key # PollKey
               /\ CacheKeyText(calls[cl].key) # CacheKeyText(PollKey)
               /\ CacheKeyText(calls[cl].key) # CacheKeyText(SvcKey)
          /\ (Called(calls[cl]) /\ Resolved(calls[cl].inc)) =>
               PageOf(calls[cl].key, calls[cl].inc.data[1])
          /\ Resolved(calls[cl].svc) => PageOf(SvcKey, calls[cl].svc.data[1]))
  /\ [](\A k \in DOMAIN cache : PageOf(k, cache[k].data))
  /\ [][\A cl \in Clients :
          /\ (Arrives(cl) /\ calls'[cl].inc.st = "hit") =>
               calls'[cl].inc.data = <<cache[calls'[cl].key].data>>
          /\ (Arrives(cl) /\ calls'[cl].svc.st = "hit") =>
               calls'[cl].svc.data = <<cache[SvcKey].data>>
          /\ IncidentsSettles(cl) => FrameOf(calls[cl].key)
          /\ ServicesSettles(cl) => FrameOf(SvcKey)]_vars

\* With more incidents upstream than either limit, a poll and a full-fetch
\* have each been answered, and the map holds the active-status page, the
\* full-fetch page and the services page side by side.
C38_Witness ==
  \E cl \in Clients, other \in Clients :
    /\ PollOf(cl)
    /\ calls[cl].inc.st = "ok"
    /\ calls[cl].inc.data[1].n = ActiveLimit
    /\ calls[other].tool = "dashboard"
    /\ calls[other].inc.st = "ok"
    /\ calls[other].inc.data[1].n = RecentLimit
    /\ {PollKey, calls[other].key, SvcKey} \subseteq DOMAIN cache
    /\ cache[PollKey].data.n = ActiveLimit
    /\ cache[calls[other].key].data.n = RecentLimit

\* ---- C39 ---------------------------------------------------------------------
\* A poll call is issued in this step; the response of poll k arrives in it.
Issues == Len(polls') = Len(polls) + 1
ArrivesNow(k) == k \in DOMAIN polls /\ polls[k].st = "pending" /\ polls'[k].st # "pending"

\* Polling is enabled: the app is connected and updates are not paused.
Enabled == app /\ isPolling

\* The responses with stats, and the one of them that arrived last.
WithStats == {k \in DOMAIN polls : polls[k].st = "stats"}
LastWithStats ==
  IF WithStats = {} THEN <<>>
  ELSE <<CHOOSE k \in WithStats : \A j \in WithStats : polls[j].order <= polls[k].order>>

AgeReachedTtl(key) == now - cache[key].timestamp >= cache[key].ttl

\* The map cleanup() would leave at this clock value.
AfterCleanup == CacheDelete(cache, {k \in DOMAIN cache : Expired(cache[k], now)})

\* C40: the three expiry checks agree.  For every entry and clock value,
\* getOrFetch misses exactly when get returns null and exactly when cleanup
\* deletes the entry, namely when now - timestamp >= ttl.  get deletes the
\* expired entry it finds; getOrFetch leaves it in the map, where it stays
\* until its fetcher's result overwrites it or the sweep removes it.
C40_ExpiryChecksAgree ==
  /\ [](\A key \in DOMAIN cache :
          /\ (Lookup(cache, key, now).st # "hit") = AgeReachedTtl(key)
          /\ (DataCacheGet(cache, key, now).val = <<>>) = AgeReachedTtl(key)
          /\ (key \notin DOMAIN AfterCleanup) = AgeReachedTtl(key))
  /\ [][/\ \A key \in DOMAIN cache, ttl \in DirectTtls :
             GetOrFetch(key, ttl) =>
               /\ last'.invoked = AgeReachedTtl(key)
               /\ cache' = cache
        /\ \A key \in DOMAIN cache :
             Get(key) =>
               /\ (last'.val = <<>>) = AgeReachedTtl(key)
               /\ cache' = IF AgeReachedTtl(key) THEN CacheDelete(cache, {key})
                                                 ELSE cache
        /\ Cleanup =>
             /\ DOMAIN cache' = {k \in DOMAIN cache : ~AgeReachedTtl(k)}
             /\ \A k \in DOMAIN cache' : cache'[k] = cache[k]
        /\ \A f \in fetches :
             /\ FetcherRejects(f) => cache' = cache
             /\ (FetcherResolves(f) /\ f.real) =>
                  /\ cache'[f.key].timestamp = now
                  /\ \A k \in DOMAIN cache \ {f.key} :
                       k \in DOMAIN cache' /\ cache'[k] = cache[k]
       ]_vars

\* A getOrFetch missed on an entry whose age is exactly its ttl, at the
\* instant the sweep is due: the entry is still in the map, get would return
\* null for it and cleanup would delete it.
C40_Witness ==
  \E k \in DOMAIN cache :
    /\ last.op = "getOrFetch"
    /\ last.keys = {k}
    /\ last.invoked
    /\ now - cache[k].timestamp = cache[k].ttl
    /\ \E f \in fetches : f.key = k /\ f.real
    /\ now >= nextSweep
    /\ DataCacheGet(cache, k, now).val = <<>>
    /\ k \notin DOMAIN AfterCleanup

====
